---- MODULE Spec2Model ----
(***************************************************************************)
(* Model of the chunked-upload session manager of sortify                  *)
(* (backend/internal/upload/manager.go).  Every exported method of Manager *)
(* runs under the manager's mutex from its first to its last statement,    *)
(* so each call is one atomic action.  The temp directory is modelled as a *)
(* map from path to byte sequence.                                         *)
(***************************************************************************)
EXTENDS Integers, Sequences, FiniteSets, TLC

\* ------------------------------------------------------------------ bounds
MaxSessions    == 2   \* largest maxSessions handed to NewManager
MaxClock       == 2   \* clock readings are 0..MaxClock
MaxFileSize    == 3   \* declared file sizes are 1..MaxFileSize
MaxChunkSize   == 2   \* chunk sizes are 1..MaxChunkSize
MaxChunkNumber == 1   \* chunk numbers are -1..MaxChunkNumber
MaxDataLen     == 2   \* chunk payloads have 0..MaxDataLen bytes
MaxUploaded    == 3   \* cap on the UploadedSize accumulator
MaxThreads     == 2   \* goroutines that serve UploadChunk requests at once
MaxTick        == 1   \* last tick of a month: a month has MaxTick + 1 ticks
MaxOrganized   == 3   \* files in the media tree
MaxFiles       == 3   \* media files that one scan finds

\* ------------------------------------------------------------- value sets
ZeroByte  == 0                       \* what Truncate and a seek past EOF leave
DataBytes == {1, 2}                  \* payload bytes sent by clients
HashBase  == 3                       \* number of distinct byte values

FileSizes    == 1..MaxFileSize
ChunkSizes   == 1..MaxChunkSize
ChunkNumbers == (-1)..MaxChunkNumber
ChunkDatas   == UNION {[1..k -> DataBytes] : k \in 0..MaxDataLen}

NoChecksum == 0                      \* the empty string "" of the code
NoSession  == -1                     \* "no session" in a call record
NoValue    == -1                     \* a call that returns no value, or "" or nil

FileNames  == {"a.jpg"}              \* names of uploaded files

\* models.UploadStatus
StatusInitialized == "initialized"
StatusUploading   == "uploading"
StatusPaused      == "paused"
StatusCompleted   == "completed"
StatusCancelled   == "cancelled"

\* error values returned by the manager (nil is "nil")
ErrNil          == "nil"
ErrCapacity     == "maximum concurrent uploads reached"
ErrCreateFile   == "failed to create temporary file"
ErrAllocate     == "failed to allocate file space"
ErrNotFound     == "session not found"
ErrChunkSum     == "chunk checksum mismatch"
ErrOpenFile     == "failed to open temporary file"
ErrSeek         == "failed to seek to chunk position"
ErrWrite        == "failed to write chunk data"
ErrSizeMismatch == "uploaded size mismatch"
ErrCalcSum      == "failed to calculate file checksum"
ErrFileSum      == "file checksum mismatch"
ErrNotPaused    == "session is not paused"
ErrNotCompleted == "session not completed"
ErrFilenameRequired == "Filename is required"
ErrFileSizeRequired == "File size must be greater than 0"

DefaultChunkSize == 1048576          \* 1024 * 1024

\* the organizer
MinYear     == 1990
YearWidth   == 4
MaxNameLen  == 200
MaxAttempts == 1000

DateSourceFileName == "filename"

NoPath == <<>>

VARIABLES
    sessions,     \* Manager.sessions: session ID -> UploadSession
    maxSessions,  \* Manager.maxSessions
    files,        \* the temp directory: path -> bytes of the file
    clock,        \* last reading of time.Now()
    ret,          \* the most recent call: operation, arguments, returned error
    hist,         \* per session in the map: which chunks its successful uploads covered
    freed,        \* "slot":  a successful CancelUpload took a session out of a
                  \*          full manager and CreateSession was not called since
                  \* "taken": the first CreateSession after that succeeded
                  \* "no":    otherwise
    cancelled,    \* the session IDs on which CancelUpload has succeeded
    mutex,        \* m.mutex: the goroutines that hold the lock
    threads,      \* the goroutines that serve UploadChunk requests: where
                  \* each is in UploadChunk, and its arguments and locals
    media,        \* the media tree: <<year, month, file name>> -> bytes of the file
    requests      \* the goroutines that serve complete-upload requests, and
                  \* those inside OrganizeFile: where each is, and its locals

vars == <<sessions, maxSessions, files, clock, ret, hist, freed, cancelled,
          mutex, threads, media, requests>>

\* ---------------------------------------------------------------- helpers
\* sha256 followed by the %x formatting: an injective digest of the bytes,
\* never equal to the empty string
RECURSIVE Sha256(_)
Sha256(bytes) ==
    IF Len(bytes) = 0 THEN 1
    ELSE Sha256(SubSeq(bytes, 1, Len(bytes) - 1)) * HashBase + bytes[Len(bytes)]

\* a checksum that disagrees with the data
WrongSum(data) == IF Len(data) = 0 THEN Sha256(<<1>>) ELSE Sha256(<<>>)

\* the bytes a client means to send for a file of the given size
Ones(size) == [i \in 1..size |-> 1]

generateSessionID(now) == now

TempPathOf(sessionID) == sessionID

TotalChunksOf_Floor(fileSize, chunkSize) == fileSize \div chunkSize

TotalChunksOf(fileSize, chunkSize) == (fileSize + chunkSize - 1) \div chunkSize

\* file.Truncate(size) on a freshly created file
Truncated(size) == [i \in 1..size |-> ZeroByte]

\* file.Seek(offset, 0) followed by file.Write(data)
WriteAt(bytes, offset, data) ==
    IF Len(data) = 0 THEN bytes
    ELSE [i \in 1..(IF Len(bytes) >= offset + Len(data) THEN Len(bytes)
                      ELSE offset + Len(data)) |->
            IF i > offset /\ i <= offset + Len(data) THEN data[i - offset]
            ELSE IF i <= Len(bytes) THEN bytes[i]
            ELSE ZeroByte]

PutFile(path, bytes) ==
    [p \in DOMAIN files \cup {path} |-> IF p = path THEN bytes ELSE files[p]]

\* os.Remove(path)
RemoveFile(path) == [p \in DOMAIN files \ {path} |-> files[p]]

\* m.sessions[sessionID] = session
PutSession(sessionID, session) ==
    [s \in DOMAIN sessions \cup {sessionID} |->
        IF s = sessionID THEN session ELSE sessions[s]]

\* delete(m.sessions, sessionID)
DeleteSession(sessionID) == [s \in DOMAIN sessions \ {sessionID} |-> sessions[s]]

AtCapacity_Over == Cardinality(DOMAIN sessions) > maxSessions

AtCapacity_Early == Cardinality(DOMAIN sessions) + 1 >= maxSessions

AtCapacity == Cardinality(DOMAIN sessions) >= maxSessions

ChunkOffset_Unscaled(session, chunkNumber) == chunkNumber

ChunkOffset(session, chunkNumber) == chunkNumber * session.ChunkSize

ChunkChecksumOK_Ignored(chunkData, expectedChecksum) == TRUE

ChunkChecksumOK(chunkData, expectedChecksum) ==
    ~(expectedChecksum # NoChecksum /\ Sha256(chunkData) # expectedChecksum)

AddUploaded_ChunkSize(session, chunkData) ==
    session.UploadedSize + (IF Len(chunkData) = 0 THEN 0 ELSE session.ChunkSize)

AddUploaded_Clamped(session, chunkData) ==
    IF session.UploadedSize + Len(chunkData) > session.FileSize
    THEN session.FileSize
    ELSE session.UploadedSize + Len(chunkData)

AddUploaded(session, chunkData) == session.UploadedSize + Len(chunkData)

SizeMatches_AtLeast(session) == session.UploadedSize >= session.FileSize

SizeMatches(session) == session.UploadedSize = session.FileSize

\* how an expected checksum relates to the digest it is compared with
SumKind(expectedChecksum, digest) ==
    IF expectedChecksum = NoChecksum THEN "none"
    ELSE IF expectedChecksum = digest THEN "right"
    ELSE "wrong"

\* ret.chunk: the chunk number passed (0 when the call has none)
\* ret.wrote: the bytes the call stored in the temp file
\* ret.sum:   the kind of expected checksum passed
\* ret.out:   the value returned beside the error
Call(op, sid, chunk, wrote, sum, err) ==
    [op |-> op, sid |-> sid, chunk |-> chunk, wrote |-> wrote, sum |-> sum,
     err |-> err, out |-> NoValue]

\* a call that takes a session ID and returns a value and an error
Query(op, sid, out, err) == [Call(op, sid, 0, <<>>, "none", err) EXCEPT !.out = out]

\* ------------------------------------------------- history of the uploads
\* number of bytes of chunk n in a file cut into chunks of ChunkSize
ChunkLen(session, n) ==
    IF n < 0 \/ n >= session.TotalChunks THEN 0
    ELSE IF (n + 1) * session.ChunkSize <= session.FileSize THEN session.ChunkSize
    ELSE session.FileSize - n * session.ChunkSize

NoHistory ==
    [hit |-> {}, full |-> {}, twice |-> FALSE, clean |-> TRUE, done |-> FALSE,
     bytes |-> 0]

\* hit:   chunk numbers with a successful non-empty upload
\* full:  chunk numbers with a successful upload of exactly the chunk's bytes
\* twice: some chunk number had two successful non-empty uploads
\* clean: every successful upload was the first of its chunk and had
\*        exactly the chunk's bytes
\* done:  CompleteUpload has succeeded
\* bytes: the sum of the data lengths of the successful uploads
Uploaded(h, session, n, data) ==
    LET whole == Len(data) > 0 /\ Len(data) = ChunkLen(session, n)
    IN  [h EXCEPT !.hit   = IF Len(data) > 0 THEN @ \cup {n} ELSE @,
                  !.full  = IF whole THEN @ \cup {n} ELSE @,
                  !.twice = @ \/ (Len(data) > 0 /\ n \in h.hit),
                  !.clean = @ /\ whole /\ n \notin h.hit,
                  !.bytes = @ + Len(data)]

PutHist(sessionID, h) ==
    [s \in DOMAIN hist \cup {sessionID} |-> IF s = sessionID THEN h ELSE hist[s]]

DropHist(sessionID) == [s \in DOMAIN hist \ {sessionID} |-> hist[s]]

\* ------------------------------------------------------------- goroutines
Threads == 1..MaxThreads

\* a goroutine that is not inside UploadChunk
Idle == [pc |-> "idle", sid |-> NoSession, data |-> <<>>, local |-> 0, err |-> ErrNil]

\* a goroutine that serves no complete-upload request and is not inside
\* OrganizeFile
Waiting == [pc |-> "idle"]

\* m.mutex.Lock() with defer m.mutex.Unlock(), or RLock() with RUnlock(),
\* around a call that is modelled as one step: the step is taken while no
\* goroutine holds the lock, and the lock is free again after it
WithLock == mutex = {} /\ UNCHANGED <<mutex, threads, media>>

\* ------------------------------------------------------------------- Init
\* NewManager(tempDir, maxSessions)
InitWith(n, now) ==
    /\ sessions = <<>>
    /\ maxSessions = n
    /\ files = <<>>
    /\ clock = now
    /\ ret = Call("NewManager", NoSession, 0, <<>>, "none", ErrNil)
    /\ hist = <<>>
    /\ freed = "no"
    /\ cancelled = {}
    /\ mutex = {}
    /\ threads = [t \in Threads |-> Idle]
    /\ media = <<>>
    /\ requests = [t \in Threads |-> Waiting]

\* ---------------------------------------------------------------- actions
\* now: what time.Now() returns; io: which file system call fails, if any
CreateSession_LeavesFile(fileName, fileSize, chunkSize, checksum, now, io) ==
    /\ WithLock
    /\ IF AtCapacity
       THEN /\ ret' = Call("CreateSession", NoSession, 0, <<>>, "none", ErrCapacity)
            /\ freed' = "no"
            /\ UNCHANGED <<sessions, maxSessions, cancelled, files, clock, hist>>
       ELSE LET sessionID == generateSessionID(now)
                tempPath  == TempPathOf(sessionID)
                session   == [ID           |-> sessionID,
                              FileName     |-> fileName,
                              FileSize     |-> fileSize,
                              ChunkSize    |-> chunkSize,
                              TotalChunks  |-> TotalChunksOf(fileSize, chunkSize),
                              UploadedSize |-> 0,
                              Checksum     |-> checksum,
                              TempPath     |-> tempPath,
                              Status       |-> StatusInitialized]
            IN  /\ clock' = now
                /\ freed' = IF freed = "slot" /\ io = "ok" THEN "taken" ELSE "no"
                /\ UNCHANGED <<maxSessions, cancelled>>
                /\ CASE io = "create" ->
                          /\ ret' = Call("CreateSession", NoSession, 0, <<>>, "none", ErrCreateFile)
                          /\ UNCHANGED <<sessions, files, hist>>
                     [] io = "truncate" \/ fileSize < 0 ->
                          \* os.Create emptied the path, os.Remove deletes it;
                          \* file.Truncate fails on a negative size
                          /\ files' = PutFile(tempPath, <<>>)
                          /\ ret' = Call("CreateSession", NoSession, 0, <<>>, "none", ErrAllocate)
                          /\ UNCHANGED <<sessions, hist>>
                     [] OTHER ->
                          /\ files' = PutFile(tempPath, Truncated(fileSize))
                          /\ sessions' = PutSession(sessionID, session)
                          /\ hist' = PutHist(sessionID, NoHistory)
                          /\ ret' = Call("CreateSession", sessionID, 0, <<>>, "none", ErrNil)

CreateSession(fileName, fileSize, chunkSize, checksum, now, io) ==
    /\ WithLock
    /\ IF AtCapacity
       THEN /\ ret' = Call("CreateSession", NoSession, 0, <<>>, "none", ErrCapacity)
            /\ freed' = "no"
            /\ UNCHANGED <<sessions, maxSessions, cancelled, files, clock, hist>>
       ELSE LET sessionID == generateSessionID(now)
                tempPath  == TempPathOf(sessionID)
                session   == [ID           |-> sessionID,
                              FileName     |-> fileName,
                              FileSize     |-> fileSize,
                              ChunkSize    |-> chunkSize,
                              TotalChunks  |-> TotalChunksOf(fileSize, chunkSize),
                              UploadedSize |-> 0,
                              Checksum     |-> checksum,
                              TempPath     |-> tempPath,
                              Status       |-> StatusInitialized]
            IN  /\ clock' = now
                /\ freed' = IF freed = "slot" /\ io = "ok" THEN "taken" ELSE "no"
                /\ UNCHANGED <<maxSessions, cancelled>>
                /\ CASE io = "create" ->
                          /\ ret' = Call("CreateSession", NoSession, 0, <<>>, "none", ErrCreateFile)
                          /\ UNCHANGED <<sessions, files, hist>>
                     [] io = "truncate" \/ fileSize < 0 ->
                          \* os.Create emptied the path, os.Remove deletes it;
                          \* file.Truncate fails on a negative size
                          /\ files' = RemoveFile(tempPath)
                          /\ ret' = Call("CreateSession", NoSession, 0, <<>>, "none", ErrAllocate)
                          /\ UNCHANGED <<sessions, hist>>
                     [] OTHER ->
                          /\ files' = PutFile(tempPath, Truncated(fileSize))
                          /\ sessions' = PutSession(sessionID, session)
                          /\ hist' = PutHist(sessionID, NoHistory)
                          /\ ret' = Call("CreateSession", sessionID, 0, <<>>, "none", ErrNil)

\* the map is read under the read lock; nothing is written
Unchanged ==
    UNCHANGED <<sessions, maxSessions, files, clock, hist, freed, cancelled,
                mutex, threads, media>>

\* returns the session object itself
GetSession(sessionID) ==
    /\ mutex = {}
    /\ Unchanged
    /\ ret' = IF sessionID \notin DOMAIN sessions
              THEN Query("GetSession", sessionID, NoValue, ErrNotFound)
              ELSE Query("GetSession", sessionID, sessions[sessionID].ID, ErrNil)

\* returns the progress record; UploadedBytes is recorded as its value
GetProgress(sessionID) ==
    /\ mutex = {}
    /\ Unchanged
    /\ ret' = IF sessionID \notin DOMAIN sessions
              THEN Query("GetProgress", sessionID, NoValue, ErrNotFound)
              ELSE Query("GetProgress", sessionID,
                         sessions[sessionID].UploadedSize, ErrNil)

GetTempFilePath_Unchecked(sessionID) ==
    /\ mutex = {}
    /\ Unchanged
    /\ ret' = IF sessionID \notin DOMAIN sessions
              THEN Query("GetTempFilePath", sessionID, NoValue, ErrNotFound)
              ELSE Query("GetTempFilePath", sessionID,
                         sessions[sessionID].TempPath, ErrNil)

GetTempFilePath(sessionID) ==
    /\ mutex = {}
    /\ Unchanged
    /\ ret' = IF sessionID \notin DOMAIN sessions
              THEN Query("GetTempFilePath", sessionID, NoValue, ErrNotFound)
              ELSE IF sessions[sessionID].Status # StatusCompleted
              THEN Query("GetTempFilePath", sessionID, NoValue, ErrNotCompleted)
              ELSE Query("GetTempFilePath", sessionID,
                         sessions[sessionID].TempPath, ErrNil)

\* the session once the chunk is written: its length is added to
\* UploadedSize and the status is set to Uploading
Accepted_KeepsCompleted(session, chunkData) ==
    [session EXCEPT !.UploadedSize = AddUploaded(session, chunkData),
                    !.Status = IF @ = StatusCompleted THEN @ ELSE StatusUploading]

Accepted_UnlessPaused(session, chunkData) ==
    [session EXCEPT !.UploadedSize = AddUploaded(session, chunkData),
                    !.Status = IF @ = StatusPaused THEN @ ELSE StatusUploading]

Accepted(session, chunkData) ==
    [session EXCEPT !.UploadedSize = AddUploaded(session, chunkData),
                    !.Status = StatusUploading]

\* written: the number of bytes file.Write stored before it returned
UploadChunk(sessionID, chunkNumber, chunkData, expectedChecksum, written) ==
    LET sum == SumKind(expectedChecksum, Sha256(chunkData))
        fail(err) == ret' = Call("UploadChunk", sessionID, chunkNumber, <<>>, sum, err)
        done(wrote, err) == ret' = Call("UploadChunk", sessionID, chunkNumber, wrote, sum, err)
    IN
    /\ WithLock
    /\ UNCHANGED <<maxSessions, cancelled, clock, freed>>
    /\ IF sessionID \notin DOMAIN sessions
       THEN fail(ErrNotFound) /\ UNCHANGED <<sessions, files, hist>>
       ELSE LET session == sessions[sessionID]
                offset  == ChunkOffset(session, chunkNumber)
            IN  IF ~ChunkChecksumOK(chunkData, expectedChecksum)
                THEN fail(ErrChunkSum) /\ UNCHANGED <<sessions, files, hist>>
                ELSE IF session.TempPath \notin DOMAIN files
                THEN fail(ErrOpenFile) /\ UNCHANGED <<sessions, files, hist>>
                ELSE IF offset < 0
                THEN fail(ErrSeek) /\ UNCHANGED <<sessions, files, hist>>
                ELSE IF written < Len(chunkData)
                THEN /\ files' = PutFile(session.TempPath,
                                    WriteAt(files[session.TempPath], offset,
                                            SubSeq(chunkData, 1, written)))
                     /\ done(SubSeq(chunkData, 1, written), ErrWrite)
                     /\ UNCHANGED <<sessions, hist>>
                ELSE /\ files' = PutFile(session.TempPath,
                                    WriteAt(files[session.TempPath], offset, chunkData))
                     /\ sessions' = PutSession(sessionID, Accepted(session, chunkData))
                     /\ hist' = PutHist(sessionID,
                            Uploaded(hist[sessionID], session, chunkNumber, chunkData))
                     /\ done(chunkData, ErrNil)

\* os.Open(filePath) and the digest of everything read from it
calculateFileChecksum(filePath) ==
    IF filePath \in DOMAIN files
    THEN [sum |-> Sha256(files[filePath]), err |-> ErrNil]
    ELSE [sum |-> NoChecksum, err |-> ErrCalcSum]

ChecksumToVerify_StoredFirst(expectedChecksum, session) ==
    IF session.Checksum = NoChecksum THEN expectedChecksum ELSE session.Checksum

\* the completion-time value, or the session's stored one when that is ""
ChecksumToVerify(expectedChecksum, session) ==
    IF expectedChecksum = NoChecksum THEN session.Checksum ELSE expectedChecksum

CompleteUpload(sessionID, expectedChecksum) ==
    LET digest == IF sessionID \in DOMAIN sessions
                     /\ sessions[sessionID].TempPath \in DOMAIN files
                  THEN Sha256(files[sessions[sessionID].TempPath]) ELSE NoChecksum
        fail(err) == ret' = Call("CompleteUpload", sessionID, 0, <<>>,
                                 SumKind(expectedChecksum, digest), err)
    IN
    /\ WithLock
    /\ UNCHANGED <<maxSessions, cancelled, files, clock, freed>>
    /\ IF sessionID \notin DOMAIN sessions
       THEN fail(ErrNotFound) /\ UNCHANGED <<sessions, hist>>
       ELSE LET session == sessions[sessionID]
                actual  == calculateFileChecksum(session.TempPath)
                checksumToVerify == ChecksumToVerify(expectedChecksum, session)
            IN  IF ~SizeMatches(session)
                THEN fail(ErrSizeMismatch) /\ UNCHANGED <<sessions, hist>>
                ELSE IF (expectedChecksum # NoChecksum \/ session.Checksum # NoChecksum)
                        /\ actual.err # ErrNil
                THEN fail(ErrCalcSum) /\ UNCHANGED <<sessions, hist>>
                ELSE IF (expectedChecksum # NoChecksum \/ session.Checksum # NoChecksum)
                        /\ checksumToVerify # NoChecksum
                        /\ actual.sum # checksumToVerify
                THEN fail(ErrFileSum) /\ UNCHANGED <<sessions, hist>>
                ELSE /\ sessions' = PutSession(sessionID,
                            [session EXCEPT !.Status = StatusCompleted])
                     /\ hist' = [hist EXCEPT ![sessionID].done = TRUE]
                     /\ fail(ErrNil)

PauseUpload_OnlyActive(sessionID) ==
    /\ WithLock
    /\ UNCHANGED <<maxSessions, cancelled, files, clock, hist, freed>>
    /\ IF sessionID \notin DOMAIN sessions
       THEN /\ ret' = Call("PauseUpload", sessionID, 0, <<>>, "none", ErrNotFound)
            /\ UNCHANGED sessions
       ELSE IF sessions[sessionID].Status = StatusCompleted
       THEN /\ ret' = Call("PauseUpload", sessionID, 0, <<>>, "none", ErrNotPaused)
            /\ UNCHANGED sessions
       ELSE /\ sessions' = PutSession(sessionID,
                   [sessions[sessionID] EXCEPT !.Status = StatusPaused])
            /\ ret' = Call("PauseUpload", sessionID, 0, <<>>, "none", ErrNil)

PauseUpload(sessionID) ==
    /\ WithLock
    /\ UNCHANGED <<maxSessions, cancelled, files, clock, hist, freed>>
    /\ IF sessionID \notin DOMAIN sessions
       THEN /\ ret' = Call("PauseUpload", sessionID, 0, <<>>, "none", ErrNotFound)
            /\ UNCHANGED sessions
       ELSE /\ sessions' = PutSession(sessionID,
                   [sessions[sessionID] EXCEPT !.Status = StatusPaused])
            /\ ret' = Call("PauseUpload", sessionID, 0, <<>>, "none", ErrNil)

ResumeUpload_Unchecked(sessionID) ==
    /\ WithLock
    /\ UNCHANGED <<maxSessions, cancelled, files, clock, hist, freed>>
    /\ IF sessionID \notin DOMAIN sessions
       THEN /\ ret' = Call("ResumeUpload", sessionID, 0, <<>>, "none", ErrNotFound)
            /\ UNCHANGED sessions
       ELSE /\ sessions' = PutSession(sessionID,
                   [sessions[sessionID] EXCEPT !.Status = StatusUploading])
            /\ ret' = Call("ResumeUpload", sessionID, 0, <<>>, "none", ErrNil)

ResumeUpload(sessionID) ==
    /\ WithLock
    /\ UNCHANGED <<maxSessions, cancelled, files, clock, hist, freed>>
    /\ IF sessionID \notin DOMAIN sessions
       THEN /\ ret' = Call("ResumeUpload", sessionID, 0, <<>>, "none", ErrNotFound)
            /\ UNCHANGED sessions
       ELSE IF sessions[sessionID].Status # StatusPaused
       THEN /\ ret' = Call("ResumeUpload", sessionID, 0, <<>>, "none", ErrNotPaused)
            /\ UNCHANGED sessions
       ELSE /\ sessions' = PutSession(sessionID,
                   [sessions[sessionID] EXCEPT !.Status = StatusUploading])
            /\ ret' = Call("ResumeUpload", sessionID, 0, <<>>, "none", ErrNil)

CancelUpload_KeepsEntry(sessionID) ==
    /\ WithLock
    /\ UNCHANGED <<maxSessions, clock, hist>>
    /\ IF sessionID \notin DOMAIN sessions
       THEN /\ ret' = Call("CancelUpload", sessionID, 0, <<>>, "none", ErrNotFound)
            /\ UNCHANGED <<sessions, files, freed, cancelled>>
       ELSE /\ files' = RemoveFile(sessions[sessionID].TempPath)
            /\ cancelled' = cancelled \cup {sessionID}
            /\ sessions' = PutSession(sessionID,
                   [sessions[sessionID] EXCEPT !.Status = StatusCancelled])
            /\ freed' = IF Cardinality(DOMAIN sessions) >= maxSessions
                        THEN "slot" ELSE freed
            /\ ret' = Call("CancelUpload", sessionID, 0, <<>>, "none", ErrNil)

\* the session object is marked cancelled and dropped from the map; the
\* temp file is removed (os.Remove of the manager's own file succeeds)
CancelUpload(sessionID) ==
    /\ WithLock
    /\ UNCHANGED <<maxSessions, clock>>
    /\ IF sessionID \notin DOMAIN sessions
       THEN /\ ret' = Call("CancelUpload", sessionID, 0, <<>>, "none", ErrNotFound)
            /\ UNCHANGED <<sessions, files, hist, freed, cancelled>>
       ELSE /\ files' = RemoveFile(sessions[sessionID].TempPath)
            /\ cancelled' = cancelled \cup {sessionID}
            /\ sessions' = DeleteSession(sessionID)
            /\ hist' = DropHist(sessionID)
            /\ freed' = IF Cardinality(DOMAIN sessions) >= maxSessions
                        THEN "slot" ELSE freed
            /\ ret' = Call("CancelUpload", sessionID, 0, <<>>, "none", ErrNil)

CleanupSession_KeepsFile(sessionID) ==
    /\ WithLock
    /\ UNCHANGED <<maxSessions, cancelled, clock, freed>>
    /\ IF sessionID \notin DOMAIN sessions
       THEN /\ ret' = Call("CleanupSession", sessionID, 0, <<>>, "none", ErrNotFound)
            /\ UNCHANGED <<sessions, files, hist>>
       ELSE /\ files' = files
            /\ sessions' = DeleteSession(sessionID)
            /\ hist' = DropHist(sessionID)
            /\ ret' = Call("CleanupSession", sessionID, 0, <<>>, "none", ErrNil)

CleanupSession(sessionID) ==
    /\ WithLock
    /\ UNCHANGED <<maxSessions, cancelled, clock, freed>>
    /\ IF sessionID \notin DOMAIN sessions
       THEN /\ ret' = Call("CleanupSession", sessionID, 0, <<>>, "none", ErrNotFound)
            /\ UNCHANGED <<sessions, files, hist>>
       ELSE /\ files' = RemoveFile(sessions[sessionID].TempPath)
            /\ sessions' = DeleteSession(sessionID)
            /\ hist' = DropHist(sessionID)
            /\ ret' = Call("CleanupSession", sessionID, 0, <<>>, "none", ErrNil)

\* ------------------------------------------------------------- the clients
IOOutcomes == {"ok", "create", "truncate"}

\* a session ID that is in the map, one that was cancelled, or one that
\* was never given out
KnownOrNot == DOMAIN sessions \cup cancelled \cup {NoSession}

ExpectedSums(data) == {NoChecksum, Sha256(data), WrongSum(data)}

\* a request that is refused for capacity is refused before its arguments,
\* the clock or the file system are looked at: one such request stands for all
StartUpload ==
    \E fileSize \in IF AtCapacity THEN {1} ELSE FileSizes,
       chunkSize \in IF AtCapacity THEN {1} ELSE ChunkSizes,
       now \in IF AtCapacity THEN {clock} ELSE clock..MaxClock,
       io \in IF AtCapacity THEN {"ok"} ELSE IOOutcomes :
       \E fileName \in FileNames,
          checksum \in IF AtCapacity THEN {NoChecksum}
                       ELSE {NoChecksum, Sha256(Ones(fileSize))} :
          /\ CreateSession(fileName, fileSize, chunkSize, checksum, now, io)
          /\ UNCHANGED requests

SendChunk ==
    \E sessionID \in DOMAIN sessions, chunkNumber \in ChunkNumbers,
       chunkData \in ChunkDatas :
       \E expectedChecksum \in ExpectedSums(chunkData), written \in {0, Len(chunkData)} :
          /\ sessions[sessionID].UploadedSize + Len(chunkData) <= MaxUploaded
          /\ UploadChunk(sessionID, chunkNumber, chunkData, expectedChecksum, written)
          /\ UNCHANGED requests

Complete ==
    \E sessionID \in KnownOrNot :
       \E expectedChecksum \in
            {NoChecksum} \cup {Sha256(Ones(k)) : k \in FileSizes}
                         \cup {Sha256(files[path]) : path \in DOMAIN files} :
          /\ CompleteUpload(sessionID, expectedChecksum)
          /\ UNCHANGED requests

Pause ==
    \E sessionID \in KnownOrNot : PauseUpload(sessionID) /\ UNCHANGED requests

Resume ==
    \E sessionID \in KnownOrNot : ResumeUpload(sessionID) /\ UNCHANGED requests

Cancel ==
    \E sessionID \in KnownOrNot : CancelUpload(sessionID) /\ UNCHANGED requests

Cleanup ==
    \E sessionID \in KnownOrNot : CleanupSession(sessionID) /\ UNCHANGED requests

Progress ==
    \E sessionID \in KnownOrNot : GetProgress(sessionID) /\ UNCHANGED requests

\* one upload at a time: NewManager(tempDir, 1)
Spec ==
    /\ InitWith(1, MaxClock)
    /\ [][\/ StartUpload
          \/ SendChunk
          \/ \E sessionID \in KnownOrNot \ DOMAIN sessions :
                UploadChunk(sessionID, 0, <<1>>, NoChecksum, 1) /\ UNCHANGED requests
          \/ Complete
          \/ Pause
          \/ Resume
          \/ Cancel
          \/ Cleanup
          \/ \E sessionID \in KnownOrNot : GetTempFilePath(sessionID) /\ UNCHANGED requests]_vars

\* ----------------------------------------- the manager filled to capacity
\* Clients that create, cancel and clean up sessions of one byte, for a
\* manager holding up to MaxSessions sessions.
StartSmall ==
    \E now \in clock..MaxClock, io \in IOOutcomes :
       \E fileName \in FileNames :
          CreateSession(fileName, 1, 1, NoChecksum, now, io) /\ UNCHANGED requests

SendByte ==
    \E sessionID \in DOMAIN sessions :
       /\ sessions[sessionID].UploadedSize = 0
       /\ UploadChunk(sessionID, 0, <<1>>, NoChecksum, 1)
       /\ UNCHANGED requests

CompletePlain ==
    \E sessionID \in KnownOrNot :
       CompleteUpload(sessionID, NoChecksum) /\ UNCHANGED requests

SpecCap ==
    /\ InitWith(MaxSessions, 0)
    /\ [][\/ StartSmall
          \/ SendByte
          \/ CompletePlain
          \/ Cancel
          \/ Cleanup
          \/ \E sessionID \in KnownOrNot : GetSession(sessionID) /\ UNCHANGED requests
          \/ Progress]_vars

\* ------------------------------------- UploadChunk, statement by statement
\* a request arrives: its goroutine enters UploadChunk and reaches Lock()
UploadChunkCall(t, sessionID, chunkData) ==
    /\ threads[t].pc = "idle"
    /\ threads' = [threads EXCEPT ![t] =
                      [Idle EXCEPT !.pc = "Lock", !.sid = sessionID, !.data = chunkData]]
    /\ UNCHANGED <<sessions, maxSessions, files, clock, ret, hist, freed, cancelled,
                   mutex, media, requests>>

CanLock_Shared(t) == TRUE

CanLock_PerSession(t) == \A u \in mutex : threads[u].sid # threads[t].sid

\* m.mutex.Lock() returns when no goroutine holds the lock
CanLock(t) == mutex = {}

Lock(t) ==
    /\ threads[t].pc = "Lock"
    /\ CanLock(t)
    /\ mutex' = mutex \cup {t}
    /\ threads' = [threads EXCEPT ![t].pc = "Lookup"]
    /\ UNCHANGED <<sessions, maxSessions, files, clock, ret, hist, freed, cancelled,
                   media, requests>>

\* session, exists := m.sessions[sessionID]; no checksum was sent
Lookup(t) ==
    /\ threads[t].pc = "Lookup"
    /\ threads' = IF threads[t].sid \in DOMAIN sessions
                  THEN [threads EXCEPT ![t].pc = "Write"]
                  ELSE [threads EXCEPT ![t].pc = "Unlock", ![t].err = ErrNotFound]
    /\ UNCHANGED <<sessions, maxSessions, files, clock, ret, hist, freed, cancelled,
                   mutex, media, requests>>

\* os.OpenFile, file.Seek(offset, 0), file.Write(chunkData) of chunk 0
Write(t) ==
    LET session == sessions[threads[t].sid]
        offset  == ChunkOffset(session, 0)
    IN
    /\ threads[t].pc = "Write"
    /\ IF session.TempPath \notin DOMAIN files
       THEN /\ threads' = [threads EXCEPT ![t].pc = "Unlock", ![t].err = ErrOpenFile]
            /\ UNCHANGED files
       ELSE /\ files' = PutFile(session.TempPath,
                            WriteAt(files[session.TempPath], offset, threads[t].data))
            /\ threads' = [threads EXCEPT ![t].pc = "Load"]
    /\ UNCHANGED <<sessions, maxSessions, clock, ret, hist, freed, cancelled, mutex,
                   media, requests>>

\* session.UploadedSize += int64(len(chunkData)): the load
Load(t) ==
    /\ threads[t].pc = "Load"
    /\ threads' = [threads EXCEPT ![t].pc = "Store",
                                  ![t].local = sessions[threads[t].sid].UploadedSize]
    /\ UNCHANGED <<sessions, maxSessions, files, clock, ret, hist, freed, cancelled,
                   mutex, media, requests>>

\* ... the store of the sum, and session.Status = StatusUploading
Store(t) ==
    LET sessionID == threads[t].sid
        session   == sessions[sessionID]
        loaded    == [session EXCEPT !.UploadedSize = threads[t].local]
    IN
    /\ threads[t].pc = "Store"
    /\ sessions' = PutSession(sessionID,
           [session EXCEPT !.UploadedSize = AddUploaded(loaded, threads[t].data),
                           !.Status = StatusUploading])
    /\ hist' = PutHist(sessionID, Uploaded(hist[sessionID], session, 0, threads[t].data))
    /\ threads' = [threads EXCEPT ![t].pc = "Unlock"]
    /\ UNCHANGED <<maxSessions, files, clock, ret, freed, cancelled, mutex,
                   media, requests>>

Released_OnSuccess(t) == IF threads[t].err = ErrNil THEN mutex \ {t} ELSE mutex

\* the holders of the lock once the deferred m.mutex.Unlock() of t has run
Released(t) == mutex \ {t}

\* return: the deferred m.mutex.Unlock() runs and the caller gets the error
Unlock(t) ==
    /\ threads[t].pc = "Unlock"
    /\ mutex' = Released(t)
    /\ ret' = Call("UploadChunk", threads[t].sid, 0,
                   IF threads[t].err = ErrNil THEN threads[t].data ELSE <<>>,
                   "none", threads[t].err)
    /\ threads' = [threads EXCEPT ![t] = Idle]
    /\ UNCHANGED <<sessions, maxSessions, files, clock, hist, freed, cancelled,
                   media, requests>>

\* the steps of goroutine t inside UploadChunk
Step(t) == Lookup(t) \/ Write(t) \/ Load(t) \/ Store(t) \/ Unlock(t)

\* bytes that the calls in progress on a session are still to count
RECURSIVE PendingBytes(_, _)
PendingBytes(sessionID, T) ==
    IF T = {} THEN 0
    ELSE LET t == CHOOSE u \in T : TRUE
         IN  (IF threads[t].sid = sessionID /\ threads[t].pc \notin {"idle", "Unlock"}
              THEN Len(threads[t].data) ELSE 0)
             + PendingBytes(sessionID, T \ {t})

SendConcurrently ==
    \E t \in Threads, sessionID \in DOMAIN sessions, chunkData \in {<<1>>, <<1, 2>>} :
       /\ sessions[sessionID].UploadedSize + PendingBytes(sessionID, Threads)
             + Len(chunkData) <= MaxUploaded
       /\ UploadChunkCall(t, sessionID, chunkData)

NextConc ==
    \/ StartSmall
    \/ SendConcurrently
    \/ \E t \in Threads : Lock(t)
    \/ \E t \in Threads : Step(t)

\* every goroutine inside UploadChunk runs on; sync.Mutex hands the lock to
\* a goroutine that keeps waiting for it (starvation mode); the clients
\* keep sending the chunks of an unfinished upload, and the file system
\* does not refuse every new temp file
Fairness ==
    /\ WF_vars(NextConc)
    /\ \A t \in Threads : WF_vars(Step(t)) /\ SF_vars(Lock(t))
    /\ WF_vars(SendConcurrently)
    /\ SF_vars(StartSmall /\ ret'.err = ErrNil)

SpecConc == InitWith(MaxSessions, 0) /\ [][NextConc]_vars /\ Fairness

\* ---------------------------------------- every operation, under the lock
\* a request arrives: goroutine t enters one of the operations other than
\* UploadChunk and reaches Lock() or RLock(); which operation it is, and on
\* which session, shows when it runs
Invoke(t) ==
    /\ threads[t].pc = "idle"
    /\ requests[t].pc = "idle"
    /\ requests' = [requests EXCEPT ![t] = [pc |-> "Lock"]]
    /\ UNCHANGED <<sessions, maxSessions, files, clock, ret, hist, freed, cancelled,
                   mutex, threads, media>>

\* the lock is free: the operation takes it, runs to one of its returns,
\* where the deferred Unlock() or RUnlock() releases it, and t is back in
\* its handler
Run(t) ==
    /\ requests[t].pc = "Lock"
    /\ \E op \in {"CreateSession", "CompleteUpload", "GetProgress", "PauseUpload",
                  "ResumeUpload", "CancelUpload", "CleanupSession"},
          sessionID \in KnownOrNot :
          CASE op = "CreateSession"  -> \E fileName \in FileNames :
                                           CreateSession(fileName, 1, 1, NoChecksum, clock, "ok")
            [] op = "CompleteUpload" -> CompleteUpload(sessionID, NoChecksum)
            [] op = "GetProgress"    -> GetProgress(sessionID)
            [] op = "PauseUpload"    -> PauseUpload(sessionID)
            [] op = "ResumeUpload"   -> ResumeUpload(sessionID)
            [] op = "CancelUpload"   -> CancelUpload(sessionID)
            [] op = "CleanupSession" -> CleanupSession(sessionID)
    /\ requests' = [requests EXCEPT ![t] = Waiting]

InvokeUploadChunk ==
    \E t \in Threads, sessionID \in KnownOrNot :
       /\ requests[t].pc = "idle"
       /\ sessionID \in DOMAIN sessions =>
             sessions[sessionID].UploadedSize + PendingBytes(sessionID, Threads) + 1
                <= MaxUploaded
       /\ UploadChunkCall(t, sessionID, <<1>>)

\* every goroutine inside UploadChunk runs on, and sync.RWMutex hands the
\* lock to a goroutine that keeps waiting for it (a waiting writer holds
\* back new readers, and a lock that is contended for long is handed over
\* in the order of arrival)
FairLock ==
    \A t \in Threads : WF_vars(Step(t)) /\ SF_vars(Lock(t) \/ Run(t))

SpecLive ==
    /\ InitWith(1, 0)
    /\ [][\/ \E t \in Threads : Invoke(t)
          \/ InvokeUploadChunk
          \/ \E t \in Threads : Run(t)
          \/ \E t \in Threads : Lock(t)
          \/ \E t \in Threads : Step(t)]_vars
    /\ FairLock

\* ------------------------------------------------ the start-upload request
StartUploadHandler_NoSizeCheck(fileName, fileSize, chunkSize, checksum, now, io) ==
    IF fileName = ""
    THEN /\ ret' = Call("StartUploadHandler", NoSession, 0, <<>>, "none",
                        ErrFilenameRequired)
         /\ Unchanged
    ELSE CreateSession(fileName, fileSize,
                       IF chunkSize <= 0 THEN DefaultChunkSize ELSE chunkSize,
                       checksum, now, io)

\* the decoded request is validated, the chunk size defaulted, and the
\* manager called; a rejected request is answered with 400 Bad Request
StartUploadHandler(fileName, fileSize, chunkSize, checksum, now, io) ==
    IF fileName = ""
    THEN /\ ret' = Call("StartUploadHandler", NoSession, 0, <<>>, "none",
                        ErrFilenameRequired)
         /\ Unchanged
    ELSE IF fileSize <= 0
    THEN /\ ret' = Call("StartUploadHandler", NoSession, 0, <<>>, "none",
                        ErrFileSizeRequired)
         /\ Unchanged
    ELSE CreateSession(fileName, fileSize,
                       IF chunkSize <= 0 THEN DefaultChunkSize ELSE chunkSize,
                       checksum, now, io)

\* what a client may put in the request body
RequestNames      == FileNames \cup {""}
RequestSizes      == (-1)..1
RequestChunkSizes == (-1)..1

StartRequest ==
    \E fileName \in RequestNames, fileSize \in RequestSizes,
       chunkSize \in RequestChunkSizes, now \in clock..MaxClock, io \in IOOutcomes :
       /\ StartUploadHandler(fileName, fileSize, chunkSize, NoChecksum, now, io)
       /\ UNCHANGED requests

SpecHttp ==
    /\ InitWith(1, 0)
    /\ [][\/ StartRequest
          \/ SendByte
          \/ CompletePlain
          \/ Pause
          \/ Resume
          \/ Cancel
          \/ Progress]_vars

\* =============================================================== organizer
\* ------------------------------------------------------------------- time
\* An instant is a number of ticks, TicksPerMonth to the month, counted from
\* the start of year 0.  A time.Time is an instant (at) with the offset of
\* its location from UTC (zone, in ticks); a nil *time.Time has nil = TRUE.
TicksPerMonth == MaxTick + 1

MonthNames == <<"January", "February", "March", "April", "May", "June", "July",
                "August", "September", "October", "November", "December">>

TicksPerYear == TicksPerMonth * Len(MonthNames)

NoDate == [nil |-> TRUE, at |-> 0, zone |-> 0]

\* time.Date(year, month, ..., loc): tick is the place within the month
Date(year, month, tick, zone) ==
    [nil |-> FALSE, zone |-> zone,
     at |-> year * TicksPerYear + (month - 1) * TicksPerMonth + tick - zone]

\* t.Year(), t.Month(): read in the location of t
YearOf(t) == (t.at + t.zone) \div TicksPerYear

MonthOf(t) == ((t.at + t.zone) % TicksPerYear) \div TicksPerMonth + 1

\* t.AddDate(years, 0, 0)
AddDate(t, years) == [t EXCEPT !.at = @ + years * TicksPerYear]

\* time.Now() when the clock reads now and time.Local is zone ticks off
\* UTC; the clock reads 0 in the last tick of December 2024
Now(now, zone) ==
    [nil |-> FALSE, at |-> Date(2024, 12, MaxTick, 0).at + now, zone |-> zone]

\* the %d verb: the decimal digits of a natural number
RECURSIVE Decimal(_)
Decimal(n) ==
    LET digits == <<"0", "1", "2", "3", "4", "5", "6", "7", "8", "9">>
    IN  IF n < 10 THEN <<digits[n + 1]>>
        ELSE Decimal(n \div 10) \o <<digits[(n % 10) + 1]>>

RECURSIVE ZeroPad(_, _)
ZeroPad(digits, width) ==
    IF Len(digits) >= width THEN digits ELSE ZeroPad(<<"0">> \o digits, width)

\* Before and After compare the instants; validateDate takes the
\* replacement of a rejected date and the upper end of the accepted range
\* from the same reading of the clock
validateDate(dateTaken, now) ==
    IF dateTaken.nil THEN now
    ELSE LET minDate == Date(MinYear, 1, 0, 0)
             maxDate == AddDate(now, 1)
         IN  IF dateTaken.at < minDate.at \/ dateTaken.at > maxDate.at
             THEN now
             ELSE dateTaken

\* the directory below the media root, as <<year, month>>:
\* validatedDate.Format("2006"), the year in at least four digits, and
\* validatedDate.Format("January")
getTargetDirectory_ByYear(dateTaken, now) ==
    LET validatedDate == validateDate(dateTaken, now)
    IN  <<ZeroPad(Decimal(YearOf(validatedDate)), YearWidth), MonthNames[1]>>

getTargetDirectory(dateTaken, now) ==
    LET validatedDate == validateDate(dateTaken, now)
    IN  <<ZeroPad(Decimal(YearOf(validatedDate)), YearWidth),
          MonthNames[MonthOf(validatedDate)]>>

\* ------------------------------------------------------------- file names
Untitled == <<"u", "n", "t", "i", "t", "l", "e", "d">>

\* strings.ReplaceAll(result, old, "_") for each problematic character
Replaced(name) ==
    LET problematicChars == {"/", "\\", ":", "*", "?", "\"", "<", ">", "|"}
    IN  [i \in 1..Len(name) |-> IF name[i] \in problematicChars THEN "_" ELSE name[i]]

\* unicode.IsControl(r) || r == 0, on the characters that are used
RECURSIVE WithoutControl(_)
WithoutControl(name) ==
    IF Len(name) = 0 THEN <<>>
    ELSE (IF Head(name) \in {"\n", "\t", "\r"} THEN <<>> ELSE <<Head(name)>>)
         \o WithoutControl(Tail(name))

\* strings.Trim(result, " .")
RECURSIVE Trim(_)
Trim(name) ==
    IF Len(name) = 0 THEN name
    ELSE IF Head(name) \in {" ", "."} THEN Trim(Tail(name))
    ELSE IF name[Len(name)] \in {" ", "."} THEN Trim(SubSeq(name, 1, Len(name) - 1))
    ELSE name

\* index of the last "." of the name, 0 when it has none
RECURSIVE LastDot(_)
LastDot(name) ==
    IF Len(name) = 0 THEN 0
    ELSE IF name[Len(name)] = "." THEN Len(name)
    ELSE LastDot(SubSeq(name, 1, Len(name) - 1))

\* filepath.Ext(name)
Ext(name) ==
    IF LastDot(name) = 0 THEN <<>> ELSE SubSeq(name, LastDot(name), Len(name))

sanitizeFileName(fileName) ==
    IF fileName = <<>> THEN Untitled
    ELSE LET result == Trim(WithoutControl(Replaced(fileName)))
         IN  IF result = <<>> THEN Untitled
             ELSE IF Len(result) > MaxNameLen
             THEN LET ext == Ext(result)
                      nameWithoutExt == SubSeq(result, 1, Len(result) - Len(ext))
                  IN  (IF Len(nameWithoutExt) > MaxNameLen - Len(ext)
                       THEN SubSeq(nameWithoutExt, 1, MaxNameLen - Len(ext))
                       ELSE nameWithoutExt) \o ext
             ELSE result

\* ---------------------------------------------------------- the media tree
\* a path below the media root is <<year, month, file name>>
PathIn(dir, name) == <<dir[1], dir[2], name>>

DirOf(path) == <<path[1], path[2]>>

BaseOf(path) == path[3]

\* the files of a directory of the tree
FilesIn(tree, dir) == {path \in DOMAIN tree : DirOf(path) = dir}

\* fmt.Sprintf("%s(%d)%s", nameWithoutExt, counter, ext), nameWithoutExt
\* being strings.TrimSuffix(filename, ext)
Numbered(filename, counter) ==
    LET ext            == Ext(filename)
        nameWithoutExt == SubSeq(filename, 1, Len(filename) - Len(ext))
    IN  nameWithoutExt \o <<"(">> \o Decimal(counter) \o <<")">> \o ext

\* os.Stat finds the target path or not; the loop counts up from 1 and
\* ends at the first counter whose name is not there: a directory of n
\* files leaves one of the first n + 1 numbered names unused
handleDuplicates_Plain(tree, targetPath) == targetPath

handleDuplicates(tree, targetPath) ==
    LET dir      == DirOf(targetPath)
        filename == BaseOf(targetPath)
        counters == 1..(Cardinality(FilesIn(tree, dir)) + 1)
        unused   == {counter \in counters :
                        PathIn(dir, Numbered(filename, counter)) \notin DOMAIN tree}
        first    == CHOOSE counter \in unused : \A other \in unused : counter <= other
    IN  IF targetPath \notin DOMAIN tree THEN targetPath
        ELSE PathIn(dir, Numbered(filename, first))

\* filepath.Walk over the target directory: is there a file with the hash
\* of the incoming bytes
checkDuplicate_WholeTree(tree, bytes, dateTaken, now) ==
    \E path \in DOMAIN tree : Sha256(tree[path]) = Sha256(bytes)

checkDuplicate(tree, bytes, dateTaken, now) ==
    LET hash      == Sha256(bytes)
        targetDir == getTargetDirectory(dateTaken, now)
    IN  \E path \in FilesIn(tree, targetDir) : Sha256(tree[path]) = hash

\* os.Rename(src, dst), or else copyAndDelete(src, dst): the bytes of the
\* source are at dst afterwards, whatever was there
moveFile_NoReplace(tree, bytes, dst) ==
    IF dst \in DOMAIN tree THEN tree
    ELSE [path \in DOMAIN tree \cup {dst} |-> IF path = dst THEN bytes ELSE tree[path]]

moveFile(tree, bytes, dst) ==
    [path \in DOMAIN tree \cup {dst} |-> IF path = dst THEN bytes ELSE tree[path]]

\* copyAndDelete(src, dst) after os.Rename has failed, when io.Copy fails
\* partway: os.Create has made dst, a part of the bytes has been written
\* to it, and os.Remove(dst) takes it away again
copyAndDelete_KeepsPartial(tree, bytes, dst) ==
    moveFile(tree, SubSeq(bytes, 1, Len(bytes) - 1), dst)

copyAndDelete(tree, bytes, dst) ==
    LET partial == moveFile(tree, SubSeq(bytes, 1, Len(bytes) - 1), dst)
    IN  [path \in DOMAIN partial \ {dst} |-> partial[path]]

\* ------------------------------------------------------------ OrganizeFile
\* what OrganizeFile returns, and ghosts of the call: the temp file and the
\* original name it was given, the path the file was moved to, whether a
\* duplicate was found and the last time.Now() that the call has read
Organized(temp, name, err, info, final, duplicate, now) ==
    [op |-> "OrganizeFile", temp |-> temp, name |-> name, err |-> err,
     info |-> info, final |-> final, duplicate |-> duplicate, now |-> now]

\* the date and its source after the date of the temp file's name has
\* been replaced by the date of the original name or by the file time
Resolved(meta, tempFileName, originalFileName, nameDate, modTime) ==
    IF meta.DateSource = DateSourceFileName /\ tempFileName # originalFileName
    THEN IF ~nameDate.nil
         THEN [DateTaken |-> nameDate, DateSource |-> DateSourceFileName]
         ELSE IF YearOf(modTime) > 1970
         THEN [DateTaken |-> modTime, DateSource |-> "file_time"]
         ELSE [DateTaken |-> NoDate, DateSource |-> ""]
    ELSE meta

InfoNamed_Final(originalFileName, finalPath) == BaseOf(finalPath)

\* info.FileName when OrganizeFile returns
InfoNamed(originalFileName, finalPath) == originalFileName

\* tempFileName:  filepath.Base(tempFilePath)
\* meta:          the date and date source that ExtractMetadata found
\* nameDate:      the date that ExtractDateFromFilename finds in the original name
\* modTime:       the modification time of the temp file
\* zone:          the offset of time.Local
\* now1, now2:    the clock when checkDuplicate and when OrganizeFile itself
\*                call getTargetDirectory
\* io:            whether MkdirAll fails ("mkdir"), os.Rename and the start
\*                of the copy fail ("move"), or os.Rename fails and the
\*                copy fails partway ("copy"); a copy that takes the place
\*                of a failed os.Rename and succeeds is as "ok"
OrganizeFile(tempFilePath, tempFileName, originalFileName, meta, nameDate, modTime, zone, now1, now2, io) ==
    LET resolved  == Resolved(meta, tempFileName, originalFileName, nameDate, modTime)
        DateTaken == resolved.DateTaken
        bytes     == files[tempFilePath]
        targetDir == getTargetDirectory(DateTaken, Now(now2, zone))
        sanitizedFilename == sanitizeFileName(originalFileName)
        finalPath == handleDuplicates(media, PathIn(targetDir, sanitizedFilename))
        info(final) == [FileName   |-> InfoNamed(originalFileName, final),
                        DateTaken  |-> DateTaken,
                        DateSource |-> resolved.DateSource]
        fail(err) == /\ ret' = Organized(tempFilePath, originalFileName, err, [FileName |-> <<>>],
                                          NoPath, FALSE, Now(now2, zone))
                     /\ UNCHANGED <<files, media>>
    IN
    /\ UNCHANGED <<sessions, maxSessions, hist, freed, cancelled, mutex, threads>>
    /\ IF tempFilePath \notin DOMAIN files
       THEN fail("failed to extract metadata") /\ UNCHANGED clock
       ELSE IF checkDuplicate(media, bytes, DateTaken, Now(now1, zone))
       THEN /\ files' = RemoveFile(tempFilePath)
            /\ clock' = now1
            /\ ret' = Organized(tempFilePath, originalFileName, ErrNil,
                                info(PathIn(targetDir, sanitizedFilename)), NoPath,
                                TRUE, Now(now1, zone))
            /\ UNCHANGED media
       ELSE /\ clock' = now2
            /\ IF io = "mkdir" THEN fail("failed to create target directory")
               ELSE IF io = "move" THEN fail("failed to move file")
               ELSE IF io = "copy"
               THEN /\ media' = copyAndDelete(media, bytes, finalPath)
                    /\ ret' = Organized(tempFilePath, originalFileName,
                                        "failed to move file: copy failed",
                                        [FileName |-> <<>>], NoPath, FALSE, Now(now2, zone))
                    /\ UNCHANGED files
               ELSE /\ media' = moveFile(media, bytes, finalPath)
                    /\ files' = RemoveFile(tempFilePath)
                    /\ ret' = Organized(tempFilePath, originalFileName, ErrNil,
                                        info(finalPath), finalPath, FALSE,
                                        Now(now2, zone))

\* --------------------------------------------- files organized one by one
\* Files are dropped into the temp directory and organized, one call at a
\* time, under names that collide once sanitized.
TempFile == 0

NameA == <<"a", ".", "j", "p", "g">>

OrganizerIO == {"ok", "mkdir", "move"}

PutTemp ==
    /\ TempFile \notin DOMAIN files
    /\ \E bytes \in {<<1>>, <<2>>, <<1, 2>>} : files' = PutFile(TempFile, bytes)
    /\ ret' = [op |-> "PutTemp"]
    /\ UNCHANGED <<sessions, maxSessions, clock, hist, freed, cancelled, mutex,
                   threads, media, requests>>

\* a call that finds no temp file finds none whatever its other arguments
Organize ==
    \E originalFileName \in
          IF TempFile \in DOMAIN files
          THEN {NameA, <<" ">> \o NameA, Numbered(NameA, 1), <<>>} ELSE {NameA},
       nameDate \in
          IF TempFile \in DOMAIN files
          THEN {NoDate, Date(2024, 3, 0, 0), Date(1899, 1, 0, 0)} ELSE {NoDate},
       io \in IF TempFile \in DOMAIN files THEN OrganizerIO ELSE {"ok"} :
       \E now1 \in clock..MaxClock :
          \E now2 \in now1..MaxClock :
             /\ Cardinality(DOMAIN media) < MaxOrganized
             /\ OrganizeFile(TempFile, <<"t">>, originalFileName,
                             [DateTaken |-> NoDate, DateSource |-> DateSourceFileName],
                             nameDate, Date(1970, 1, 0, 0), 0, now1, now2, io)
             /\ UNCHANGED requests

SpecOrg ==
    /\ InitWith(1, 0)
    /\ [][\/ PutTemp
          \/ Organize]_vars

\* --------------------------------------------- files moved across devices
\* Files are organized while os.Rename may fail, as it does when the temp
\* directory and the media tree are on different file systems, and the
\* copy that takes its place may fail too.
OrganizeMoving ==
    \E nameDate \in {NoDate, Date(2024, 3, 0, 0)}, io \in {"ok", "move", "copy"},
       now \in clock..MaxClock :
       /\ TempFile \in DOMAIN files
       /\ Cardinality(DOMAIN media) < MaxOrganized
       /\ OrganizeFile(TempFile, <<"t">>, NameA,
                       [DateTaken |-> NoDate, DateSource |-> DateSourceFileName],
                       nameDate, Date(1970, 1, 0, 0), 0, now, now, io)
       /\ UNCHANGED requests

SpecMove == InitWith(1, 0) /\ [][PutTemp \/ OrganizeMoving]_vars

\* ------------------------------------------------- files of various dates
\* Files named alike whose capture dates lie at the ends of the accepted
\* range, within it and outside it, as the extractor reads them from EXIF
\* data or file times (in the local zone).
ProbeDates(zone, now) ==
    {NoDate,
     Date(1899, 1, 0, zone),
     Date(MinYear - 1, 12, MaxTick, zone),
     Date(MinYear, 1, 0, zone),
     Date(2023, 12, MaxTick, zone),
     Date(2024, 3, 0, zone),
     AddDate(Now(now, zone), 1),
     [AddDate(Now(now, zone), 1) EXCEPT !.at = @ + 1]}

PutOne ==
    /\ TempFile \notin DOMAIN files
    /\ files' = PutFile(TempFile, <<1>>)
    /\ ret' = [op |-> "PutTemp"]
    /\ UNCHANGED <<sessions, maxSessions, clock, hist, freed, cancelled, mutex,
                   threads, media, requests>>

OrganizeDated ==
    \E zone \in {-1, 0}, now1 \in clock..MaxClock :
       \E now2 \in now1..MaxClock, DateTaken \in ProbeDates(zone, now1),
          DateSource \in {"exif", "fileTime"} :
          /\ TempFile \in DOMAIN files
          /\ Cardinality(DOMAIN media) < MaxOrganized
          /\ OrganizeFile(TempFile, <<"t">>, NameA,
                          [DateTaken |-> DateTaken, DateSource |-> DateSource],
                          NoDate, DateTaken, zone, now1, now2, "ok")
          /\ UNCHANGED requests

SpecDates ==
    /\ InitWith(1, 0)
    /\ [][\/ PutOne
          \/ OrganizeDated]_vars

\* ----------------------------------------------- a crowded month directory
\* The directory of March 2024 after files named a.jpg with contents that
\* all differ have been organized into it, one after the other: it holds
\* a.jpg, a(1).jpg, ..., a(n).jpg.  One more file named a.jpg is organized.
\* the bytes of the k-th of these files: 0 and then k to the base HashBase
RECURSIVE BytesOf(_)
BytesOf(k) ==
    IF k < HashBase THEN <<0, k>>
    ELSE BytesOf(k \div HashBase) \o <<k % HashBase>>

Crowded(n) ==
    LET crowdedDir == getTargetDirectory(Date(2024, 3, 0, 0), Now(0, 0))
        nameOf(k) == IF k = 0 THEN NameA ELSE Numbered(NameA, k)
        numberOf  == [k \in 0..n |-> PathIn(crowdedDir, nameOf(k))]
    IN  [path \in {numberOf[k] : k \in 0..n} |->
            BytesOf(CHOOSE k \in 0..n : numberOf[k] = path)]

OrganizeCrowded ==
    /\ TempFile \in DOMAIN files
    /\ OrganizeFile(TempFile, <<"t">>, NameA,
                    [DateTaken |-> NoDate, DateSource |-> DateSourceFileName],
                    Date(2024, 3, 0, 0), Date(1970, 1, 0, 0), 0, clock, clock, "ok")
    /\ UNCHANGED requests

SpecCrowded ==
    /\ sessions = <<>>
    /\ maxSessions = 1
    /\ files = <<>>
    /\ clock = 0
    /\ ret = Call("NewOrganizer", NoSession, 0, <<>>, "none", ErrNil)
    /\ hist = <<>>
    /\ freed = "no"
    /\ cancelled = {}
    /\ mutex = {}
    /\ threads = [t \in Threads |-> Idle]
    /\ requests = [t \in Threads |-> Waiting]
    /\ \E n \in {0, 1, MaxAttempts - 1, MaxAttempts} : media = Crowded(n)
    /\ [][PutTemp \/ OrganizeCrowded]_vars

\* ------------------------------------ OrganizeFile, statement by statement
\* Goroutines call OrganizeFile at the same time, for files of March 2024
\* under names that are the same once sanitized.  The organizer takes no
\* lock: each goroutine runs the duplicate check, each os.Stat of
\* handleDuplicates and the move as steps of its own.
RaceDate == Date(2024, 3, 0, 0)

\* the path that the os.Stat of goroutine t looks at
Candidate(t) ==
    LET targetDir         == getTargetDirectory(RaceDate, Now(clock, 0))
        sanitizedFilename == sanitizeFileName(requests[t].name)
    IN  IF requests[t].counter = 0
        THEN PathIn(targetDir, sanitizedFilename)
        ELSE PathIn(targetDir, Numbered(sanitizedFilename, requests[t].counter))

\* an upload has arrived in the temp directory; its goroutine enters
\* OrganizeFile and gets the metadata of the file
OrganizeFileCall(t, bytes, originalFileName) ==
    /\ requests[t].pc \in {"idle", "done"}
    /\ files' = PutFile(t, bytes)
    /\ requests' = [requests EXCEPT ![t] =
           [pc |-> "checkDuplicate", name |-> originalFileName, bytes |-> bytes,
            counter |-> 0, final |-> NoPath, duplicate |-> FALSE]]
    /\ UNCHANGED <<sessions, maxSessions, clock, ret, hist, freed, cancelled, mutex,
                   threads, media>>

\* checkDuplicate, and os.Remove(tempFilePath) when it finds the bytes
CheckDuplicate(t) ==
    /\ requests[t].pc = "checkDuplicate"
    /\ IF checkDuplicate(media, files[t], RaceDate, Now(clock, 0))
       THEN /\ files' = RemoveFile(t)
            /\ requests' = [requests EXCEPT ![t].pc = "done", ![t].duplicate = TRUE]
            /\ ret' = Organized(t, requests[t].name, ErrNil,
                                [FileName |-> requests[t].name, DateTaken |-> RaceDate,
                                 DateSource |-> DateSourceFileName],
                                NoPath, TRUE, Now(clock, 0))
       ELSE /\ requests' = [requests EXCEPT ![t].pc = "Stat"]
            /\ UNCHANGED <<files, ret>>
    /\ UNCHANGED <<sessions, maxSessions, clock, hist, freed, cancelled, mutex,
                   threads, media>>

\* one os.Stat of handleDuplicates: the path is taken when nothing is there
Stat(t) ==
    /\ requests[t].pc = "Stat"
    /\ requests' = IF Candidate(t) \in DOMAIN media
                   THEN [requests EXCEPT ![t].counter = @ + 1]
                   ELSE [requests EXCEPT ![t].pc = "moveFile",
                                         ![t].final = Candidate(t)]
    /\ UNCHANGED <<sessions, maxSessions, files, clock, ret, hist, freed, cancelled,
                   mutex, threads, media>>

\* moveFile(tempFilePath, finalPath), and the return
Move(t) ==
    /\ requests[t].pc = "moveFile"
    /\ media' = moveFile(media, files[t], requests[t].final)
    /\ files' = RemoveFile(t)
    /\ requests' = [requests EXCEPT ![t].pc = "done"]
    /\ ret' = Organized(t, requests[t].name, ErrNil,
                        [FileName |-> requests[t].name, DateTaken |-> RaceDate,
                         DateSource |-> DateSourceFileName],
                        requests[t].final, FALSE, Now(clock, 0))
    /\ UNCHANGED <<sessions, maxSessions, clock, hist, freed, cancelled, mutex,
                   threads>>

OrganizeConcurrently ==
    \E t \in Threads, bytes \in {<<1>>, <<2>>},
       originalFileName \in {NameA, <<" ">> \o NameA} :
       /\ Cardinality(DOMAIN media)
             + Cardinality({u \in Threads : requests[u].pc \notin {"idle", "done"}})
             < MaxOrganized
       /\ OrganizeFileCall(t, bytes, originalFileName)

SpecRace ==
    /\ InitWith(1, 0)
    /\ [][\/ OrganizeConcurrently
          \/ \E t \in Threads : CheckDuplicate(t)
          \/ \E t \in Threads : Stat(t)
          \/ \E t \in Threads : Move(t)]_vars

\* --------------------------------------------- the complete-upload request
\* CompleteUploadHandler calls the manager and the organizer one after the
\* other; between two of its calls other requests are served.
EmptyID == NoSession - 1

\* the characters of a file name of the upload requests
Spell(fileName) == IF fileName = "a.jpg" THEN NameA ELSE <<>>

Responded(code) == [pc |-> "done", status |-> code]

AfterOrganizeFile_Always(err) == "CleanupSession"

\* where the handler goes on when OrganizeFile has returned
AfterOrganizeFile(err) == IF err = ErrNil THEN "CleanupSession" ELSE "done"

\* the request is decoded and its session ID looked at
CompleteUploadHandler(h, sessionID) ==
    /\ requests[h].pc \in {"idle", "done"}
    /\ requests' = [requests EXCEPT ![h] =
           IF sessionID = EmptyID
           THEN Responded("BadRequest")
           ELSE [pc |-> "CompleteUpload", sid |-> sessionID, status |-> "",
                 completed |-> FALSE, tempPath |-> NoValue, FileName |-> "",
                 organized |-> FALSE]]
    /\ UNCHANGED <<sessions, maxSessions, files, clock, ret, hist, freed, cancelled,
                   mutex, threads, media>>

\* h.manager.CompleteUpload(req.SessionID, req.Checksum)
CallCompleteUpload(h) ==
    /\ requests[h].pc = "CompleteUpload"
    /\ CompleteUpload(requests[h].sid, NoChecksum)
    /\ requests' = [requests EXCEPT ![h] =
           IF ret'.err = ErrNil
           THEN [@ EXCEPT !.pc = "GetTempFilePath", !.completed = TRUE]
           ELSE Responded("InternalError")]

\* h.manager.GetTempFilePath(req.SessionID)
CallGetTempFilePath(h) ==
    /\ requests[h].pc = "GetTempFilePath"
    /\ GetTempFilePath(requests[h].sid)
    /\ requests' = [requests EXCEPT ![h] =
           IF ret'.err = ErrNil
           THEN [@ EXCEPT !.pc = "GetSession", !.tempPath = ret'.out]
           ELSE Responded("InternalError")]

\* h.manager.GetSession(req.SessionID): the handler keeps the pointer to
\* the session, through which it reads session.FileName later
CallGetSession(h) ==
    /\ requests[h].pc = "GetSession"
    /\ GetSession(requests[h].sid)
    /\ requests' = [requests EXCEPT ![h] =
           IF ret'.err = ErrNil
           THEN [@ EXCEPT !.pc = "OrganizeFile",
                          !.FileName = sessions[requests[h].sid].FileName]
           ELSE Responded("InternalError")]

\* h.organizer.OrganizeFile(tempPath, session.FileName): the name of the
\* temp file holds digits that are taken for a date and dropped, the
\* original name holds no date, the file time is the time of the upload
\* (failed: the session of a request that was answered with "Failed to
\* organize file")
CallOrganizeFile(h) ==
    /\ requests[h].pc = "OrganizeFile"
    /\ \E now \in clock..MaxClock, io \in OrganizerIO :
          OrganizeFile(requests[h].tempPath, <<"t">>, Spell(requests[h].FileName),
                       [DateTaken |-> NoDate, DateSource |-> DateSourceFileName],
                       NoDate, Now(clock, 0), 0, now, now, io)
    /\ requests' = [requests EXCEPT ![h] =
           IF AfterOrganizeFile(ret'.err) = "done"
           THEN [pc |-> "done", status |-> "InternalError", failed |-> requests[h].sid]
           ELSE [@ EXCEPT !.pc = AfterOrganizeFile(ret'.err),
                          !.organized = (ret'.err = ErrNil)]]

\* h.manager.CleanupSession(req.SessionID), whose error is only logged,
\* and response.Success
CallCleanupSession(h) ==
    /\ requests[h].pc = "CleanupSession"
    /\ CleanupSession(requests[h].sid)
    /\ requests' = [requests EXCEPT ![h] = Responded("Success")]

NextFlow ==
    \/ StartSmall
    \/ SendByte
    \/ \E t \in Threads, sessionID \in KnownOrNot \cup {EmptyID} :
          CompleteUploadHandler(t, sessionID)
    \/ \E t \in Threads : CallCompleteUpload(t)
    \/ \E t \in Threads : CallGetTempFilePath(t)
    \/ \E t \in Threads : CallGetSession(t)
    \/ \E t \in Threads : CallOrganizeFile(t)
    \/ \E t \in Threads : CallCleanupSession(t)

SpecFlow == InitWith(1, 0) /\ [][NextFlow]_vars

\* A client whose request was answered with "Failed to organize file" may
\* cancel the upload; the clock stands still, so that every upload gets
\* the same ID.
CancelFailed ==
    \E t \in Threads :
       /\ requests[t].pc = "done" /\ "failed" \in DOMAIN requests[t]
       /\ requests[t].failed \in DOMAIN sessions
       /\ CancelUpload(requests[t].failed)
       /\ UNCHANGED requests

SpecHeld == InitWith(1, MaxClock) /\ [][NextFlow \/ CancelFailed]_vars

\* ------------------------------- complete-upload requests, step by step
\* Several requests complete the same upload.  The organizer takes no lock:
\* each request runs the metadata extraction, the hash of the temp file,
\* the walk over the month directory, the search for a free name and the
\* move as steps of its own.  The file time of the temp file is the time
\* of the upload, which is its capture date and gives the directory.
\* o.extractor.ExtractMetadata(tempFilePath), which fails without the file
ExtractMetadata(h) ==
    /\ requests[h].pc = "OrganizeFile"
    /\ requests' = [requests EXCEPT ![h] =
           IF requests[h].tempPath \in DOMAIN files
           THEN [pc |-> "calculateFileHash", sid |-> requests[h].sid,
                 tempPath |-> requests[h].tempPath, FileName |-> requests[h].FileName,
                 hash |-> NoChecksum, final |-> NoPath]
           ELSE Responded("InternalError")]
    /\ UNCHANGED <<sessions, maxSessions, files, clock, ret, hist, freed, cancelled,
                   mutex, threads, media>>

\* o.calculateFileHash(filePath) in checkDuplicate: an error of
\* checkDuplicate is logged and OrganizeFile goes on
CalculateFileHash(h) ==
    /\ requests[h].pc = "calculateFileHash"
    /\ requests' = [requests EXCEPT ![h] =
           IF requests[h].tempPath \in DOMAIN files
           THEN [@ EXCEPT !.pc = "Walk", !.hash = Sha256(files[requests[h].tempPath])]
           ELSE [@ EXCEPT !.pc = "handleDuplicates"]]
    /\ UNCHANGED <<sessions, maxSessions, files, clock, ret, hist, freed, cancelled,
                   mutex, threads, media>>

\* filepath.Walk(targetDir, ...) in checkDuplicate, and for a duplicate
\* os.Remove(tempFilePath) and the return of OrganizeFile without an error
WalkTargetDir(h) ==
    LET targetDir == getTargetDirectory(Now(clock, 0), Now(clock, 0))
        foundDuplicate == \E path \in FilesIn(media, targetDir) :
                             Sha256(media[path]) = requests[h].hash
    IN  /\ requests[h].pc = "Walk"
        /\ files' = IF foundDuplicate THEN RemoveFile(requests[h].tempPath) ELSE files
        /\ requests' = [requests EXCEPT ![h].pc =
               IF foundDuplicate THEN AfterOrganizeFile(ErrNil) ELSE "handleDuplicates"]
        /\ UNCHANGED <<sessions, maxSessions, clock, ret, hist, freed, cancelled,
                       mutex, threads, media>>

\* o.handleDuplicates(filepath.Join(targetDir, sanitizedFilename))
HandleDuplicates(h) ==
    LET targetDir == getTargetDirectory(Now(clock, 0), Now(clock, 0))
        sanitizedFilename == sanitizeFileName(Spell(requests[h].FileName))
    IN  /\ requests[h].pc = "handleDuplicates"
        /\ requests' = [requests EXCEPT ![h] =
               [@ EXCEPT !.pc = "moveFile",
                         !.final = handleDuplicates(media, PathIn(targetDir, sanitizedFilename))]]
    /\ UNCHANGED <<sessions, maxSessions, files, clock, ret, hist, freed, cancelled,
                   mutex, threads, media>>

\* o.moveFile(tempFilePath, finalPath): without the source os.Rename fails
\* and so does the os.Open of copyAndDelete
MoveFile(h) ==
    /\ requests[h].pc = "moveFile"
    /\ IF requests[h].tempPath \in DOMAIN files
       THEN /\ media' = moveFile(media, files[requests[h].tempPath], requests[h].final)
            /\ files' = RemoveFile(requests[h].tempPath)
            /\ requests' = [requests EXCEPT ![h].pc = AfterOrganizeFile(ErrNil)]
       ELSE /\ requests' = [requests EXCEPT ![h] = Responded("InternalError")]
            /\ UNCHANGED <<files, media>>
    /\ UNCHANGED <<sessions, maxSessions, clock, ret, hist, freed, cancelled, mutex,
                   threads>>

SpecTwice ==
    /\ InitWith(1, 0)
    /\ [][\/ StartSmall
          \/ SendByte
          \/ \E t \in Threads, sessionID \in DOMAIN sessions :
                /\ Cardinality(DOMAIN media) < MaxOrganized
                /\ CompleteUploadHandler(t, sessionID)
          \/ \E t \in Threads : CallCompleteUpload(t)
          \/ \E t \in Threads : CallGetTempFilePath(t)
          \/ \E t \in Threads : CallGetSession(t)
          \/ \E t \in Threads : ExtractMetadata(t)
          \/ \E t \in Threads : CalculateFileHash(t)
          \/ \E t \in Threads : WalkTargetDir(t)
          \/ \E t \in Threads : HandleDuplicates(t)
          \/ \E t \in Threads : MoveFile(t)
          \/ \E t \in Threads : CallCleanupSession(t)]_vars

\* ---------------------------------------------------------------- ScanFiles
\* the time a scanned file is sorted by: *files[i].DateTaken when it is
\* not nil, else files[i].ModTime
Effective_ModTime(file) == file.ModTime

Effective(file) == IF file.DateTaken.nil THEN file.ModTime ELSE file.DateTaken

\* the loops of sortFiles from (i, j) on, with indices from 1, over the
\* list files: two entries change places when timeI.Before(timeJ)
RECURSIVE sortFiles(_, _, _)
sortFiles(list, i, j) ==
    IF i > Len(list) - 1 THEN list
    ELSE IF j > Len(list) THEN sortFiles(list, i + 1, i + 2)
    ELSE IF Effective(list[i]).at < Effective(list[j]).at
    THEN sortFiles([list EXCEPT ![i] = list[j], ![j] = list[i]], i, j + 1)
    ELSE sortFiles(list, i, j + 1)

\* what ScanFiles returns for the list that filepath.Walk has appended
ScanFiles(list, limit, offset) ==
    LET sorted == sortFiles(list, 1, 2)
        start  == offset
        end    == IF offset + limit > Len(sorted) THEN Len(sorted) ELSE offset + limit
    IN  IF start >= Len(sorted) THEN <<>> ELSE SubSeq(sorted, start + 1, end)

\* filepath.Walk finds up to MaxFiles media files, in the order of their
\* paths; each has a modification time, and a capture date or none
Walk ==
    \E n \in 0..MaxFiles :
       \E taken \in [1..n -> {NoDate, Date(2024, 2, 0, 0), Date(2024, 4, 0, 0)}],
          modified \in [1..n -> {Date(2024, 1, 0, 0), Date(2024, 3, 0, 0)}] :
          /\ ret.op = "NewManager"
          /\ ret' = [op |-> "Walk",
                     files |-> [k \in 1..n |-> [ID |-> k, DateTaken |-> taken[k],
                                                ModTime |-> modified[k]]]]
          /\ UNCHANGED <<sessions, maxSessions, files, clock, hist, freed, cancelled,
                         mutex, threads, media, requests>>

\* BrowseHandler passes a limit above 0 and an offset of 0 or more
Scan ==
    \E limit \in 1..(MaxFiles + 1), offset \in 0..(MaxFiles + 1) :
       /\ ret.op \in {"Walk", "ScanFiles"}
       /\ ret' = [op |-> "ScanFiles", files |-> ret.files, limit |-> limit,
                  offset |-> offset, err |-> ErrNil,
                  out |-> ScanFiles(ret.files, limit, offset)]
       /\ UNCHANGED <<sessions, maxSessions, files, clock, hist, freed, cancelled,
                      mutex, threads, media, requests>>

SpecScan == InitWith(1, 0) /\ [][Walk \/ Scan]_vars

\* ================================================================= claims
SessionCount == Cardinality(DOMAIN sessions)

IsCall(r, op, sid) == r.op = op /\ r.sid = sid

\* C1: the map never holds more than maxSessions sessions, and a
\* CreateSession called while the map holds maxSessions or more sessions
\* returns the capacity error, adds no session and creates no temp file.
C1_CapacityEnforced ==
    /\ [](SessionCount <= maxSessions)
    /\ [][(SessionCount >= maxSessions /\ ret'.op = "CreateSession")
            => (ret'.err = ErrCapacity /\ sessions' = sessions /\ files' = files)]_vars

C1_Witness ==
    /\ ret.op = "CreateSession"
    /\ ret.err = ErrCapacity
    /\ SessionCount = maxSessions
    /\ maxSessions >= 2

\* C2: after a CancelUpload that succeeded on a session of a full manager,
\* the next CreateSession is not refused for capacity: it adds its session
\* to the map (unless the file system refuses the temp file).
C2_CancelFreesSlot ==
    [][(freed = "slot" /\ ret'.op = "CreateSession")
         => /\ ret'.err \in {ErrNil, ErrCreateFile, ErrAllocate}
            /\ freed' = "taken" => (ret'.err = ErrNil /\ ret'.sid \in DOMAIN sessions')]_vars

C2_Witness ==
    /\ freed = "taken"
    /\ ret.op = "CreateSession"
    /\ ret.err = ErrNil
    /\ SessionCount = maxSessions
    /\ maxSessions >= 2

\* the chunk numbers of a session's file
AllChunks(session) == 0..(session.TotalChunks - 1)

\* C3: when chunks 0..TotalChunks-1 were uploaded exactly once each, each
\* with exactly the bytes of its range of [0, FileSize), and nothing else
\* was uploaded, CompleteUpload without a checksum on a session that stores
\* none returns nil and sets the status to Completed.
C3_CompleteAfterAllChunks ==
    [][\A sid \in DOMAIN sessions :
          (/\ IsCall(ret', "CompleteUpload", sid)
           /\ ret'.sum = "none"
           /\ sessions[sid].Checksum = NoChecksum
           /\ hist[sid].clean
           /\ hist[sid].full = AllChunks(sessions[sid]))
          => (/\ ret'.err = ErrNil
              /\ sid \in DOMAIN sessions'
              /\ sessions'[sid].Status = StatusCompleted)]_vars

C3_Witness ==
    \E sid \in DOMAIN sessions :
       /\ IsCall(ret, "CompleteUpload", sid)
       /\ ret.sum = "none"
       /\ ret.err = ErrNil
       /\ sessions[sid].Checksum = NoChecksum
       /\ sessions[sid].Status = StatusCompleted
       /\ sessions[sid].TotalChunks = 2
       /\ sessions[sid].FileSize = 3
       /\ hist[sid].clean
       /\ hist[sid].full = AllChunks(sessions[sid])

\* C4: CompleteUpload on a session whose UploadedSize differs from its
\* FileSize returns the size-mismatch error and leaves every session and
\* every temp file as it was.
C4_SizeMismatchRejected ==
    [][\A sid \in DOMAIN sessions :
          (/\ IsCall(ret', "CompleteUpload", sid)
           /\ sessions[sid].UploadedSize # sessions[sid].FileSize)
          => (ret'.err = ErrSizeMismatch /\ sessions' = sessions /\ files' = files)]_vars

C4_Witness ==
    \E sid \in DOMAIN sessions :
       /\ IsCall(ret, "CompleteUpload", sid)
       /\ ret.err = ErrSizeMismatch
       /\ sessions[sid].UploadedSize > sessions[sid].FileSize
       /\ sessions[sid].Status = StatusUploading

\* C5: UploadChunk with a non-empty expected checksum that differs from
\* the digest of the data returns the checksum-mismatch error and leaves
\* every session and every temp file as it was.
C5_WrongChunkChecksumRejected ==
    [][\A sid \in DOMAIN sessions :
          (IsCall(ret', "UploadChunk", sid) /\ ret'.sum = "wrong")
          => (ret'.err = ErrChunkSum /\ sessions' = sessions /\ files' = files)]_vars

C5_Witness ==
    \E sid \in DOMAIN sessions :
       /\ IsCall(ret, "UploadChunk", sid)
       /\ ret.sum = "wrong"
       /\ ret.err = ErrChunkSum
       /\ sessions[sid].UploadedSize > 0
       /\ sessions[sid].Status = StatusPaused

\* C6: once CompleteUpload has succeeded for a session, every later
\* UploadChunk for it is rejected and changes neither the session nor the
\* temp file.
C6_CompletedIsTerminal ==
    [][\A sid \in DOMAIN sessions :
          (hist[sid].done /\ IsCall(ret', "UploadChunk", sid))
          => (ret'.err # ErrNil /\ sessions' = sessions /\ files' = files)]_vars

\* C7: every session in the map has 0 <= UploadedSize <= FileSize.
C7_UploadedWithinFileSize ==
    \A sid \in DOMAIN sessions :
       /\ 0 <= sessions[sid].UploadedSize
       /\ sessions[sid].UploadedSize <= sessions[sid].FileSize

\* C8: the temp file of every session in the map has exactly FileSize bytes.
C8_TempFileKeepsLength ==
    \A sid \in DOMAIN sessions :
       /\ sessions[sid].TempPath \in DOMAIN files
       /\ Len(files[sessions[sid].TempPath]) = sessions[sid].FileSize

\* every chunk of the file had an upload of exactly its bytes
Covered(sid) == AllChunks(sessions[sid]) \subseteq hist[sid].full

\* C9: every successful UploadChunk adds the length of its data to
\* UploadedSize; once every chunk of the file was uploaded and some chunk
\* number had two non-empty uploads, UploadedSize exceeds FileSize and
\* CompleteUpload returns the size-mismatch error.
C9_RepeatedChunkCountsTwice ==
    /\ [][\A sid \in DOMAIN sessions :
             (IsCall(ret', "UploadChunk", sid) /\ ret'.err = ErrNil)
             => (/\ sid \in DOMAIN sessions'
                 /\ sessions'[sid].UploadedSize
                      = sessions[sid].UploadedSize + Len(ret'.wrote))]_vars
    /\ [](\A sid \in DOMAIN sessions :
             (Covered(sid) /\ hist[sid].twice)
             => sessions[sid].UploadedSize > sessions[sid].FileSize)
    /\ [][\A sid \in DOMAIN sessions :
             (Covered(sid) /\ hist[sid].twice /\ IsCall(ret', "CompleteUpload", sid))
             => (ret'.err = ErrSizeMismatch /\ sessions' = sessions)]_vars

C9_Witness ==
    \E sid \in DOMAIN sessions :
       /\ Covered(sid)
       /\ hist[sid].twice
       /\ sessions[sid].TotalChunks = 2
       /\ IsCall(ret, "CompleteUpload", sid)
       /\ ret.err = ErrSizeMismatch
       /\ sessions[sid].UploadedSize > sessions[sid].FileSize

\* C10: a successful UploadChunk stores its data at byte offset
\* chunkNumber * ChunkSize and touches no other byte of the file; repeating
\* the upload just made leaves the file as it is; data of at most ChunkSize
\* bytes leaves the bytes of every other chunk's range as they are.
C10_ChunkPlacement ==
    [][\A sid \in DOMAIN sessions :
          (IsCall(ret', "UploadChunk", sid) /\ ret'.err = ErrNil)
          => LET session == sessions[sid]
                 before  == files[session.TempPath]
                 after   == files'[session.TempPath]
                 data    == ret'.wrote
                 start   == ret'.chunk * session.ChunkSize
             IN  /\ Len(after) >= Len(before)
                 /\ (Len(data) = 0 \/ Len(after) >= start + Len(data))
                 /\ \A i \in 1..Len(data) : after[start + i] = data[i]
                 /\ \A i \in 1..Len(before) :
                       (i <= start \/ i > start + Len(data)) => after[i] = before[i]
                 /\ (/\ IsCall(ret, "UploadChunk", sid)
                     /\ ret.err = ErrNil
                     /\ ret.chunk = ret'.chunk
                     /\ ret.wrote = ret'.wrote) => after = before
                 /\ Len(data) <= session.ChunkSize =>
                       \A i \in 1..Len(before) :
                          (i <= start \/ i > start + session.ChunkSize)
                             => after[i] = before[i]]_vars

C10_Witness ==
    \E sid \in DOMAIN sessions :
       /\ IsCall(ret, "UploadChunk", sid)
       /\ ret.err = ErrNil
       /\ ret.chunk = 1
       /\ Len(ret.wrote) = 1
       /\ sessions[sid].ChunkSize = 1
       /\ hist[sid].twice
       /\ hist[sid].hit = {0, 1}
       /\ files[sessions[sid].TempPath][1] \in DataBytes
       /\ files[sessions[sid].TempPath][2] = ret.wrote[1]
       /\ files[sessions[sid].TempPath][1] # ret.wrote[1]

\* C11: GetTempFilePath returns the session's temp path only when the session
\* exists and its status is Completed at the time of the call; for an
\* Initialized, Uploading or Paused session it returns the not-completed
\* error and no path, for an unknown ID the not-found error and no path; it
\* changes neither the sessions nor the files.
C11_TempPathOnlyWhenCompleted ==
    [][ret'.op = "GetTempFilePath" =>
         LET sid == ret'.sid IN
         /\ sessions' = sessions /\ files' = files
         /\ sid \notin DOMAIN sessions =>
                ret'.err = ErrNotFound /\ ret'.out = NoValue
         /\ sid \in DOMAIN sessions /\ sessions[sid].Status = StatusCompleted =>
                ret'.err = ErrNil /\ ret'.out = sessions[sid].TempPath
         /\ sid \in DOMAIN sessions
              /\ sessions[sid].Status \in {StatusInitialized, StatusUploading, StatusPaused} =>
                ret'.err = ErrNotCompleted /\ ret'.out = NoValue]_vars

\* a completed session whose temp path was just handed out
C11_Witness ==
    /\ ret.op = "GetTempFilePath" /\ ret.err = ErrNil
    /\ ret.sid \in DOMAIN sessions
    /\ sessions[ret.sid].Status = StatusCompleted
    /\ ret.out = sessions[ret.sid].TempPath

\* C13: ResumeUpload on an existing session fails with the not-paused error
\* and changes nothing unless the session's status is Paused; when it is
\* Paused the status becomes Uploading and UploadedSize, every other field
\* and the temp file stay as they were.
C13_ResumeOnlyWhenPaused ==
    [][ret'.op = "ResumeUpload" /\ ret'.sid \in DOMAIN sessions =>
         LET sid == ret'.sid IN
         /\ files' = files
         /\ IF sessions[sid].Status = StatusPaused
            THEN /\ ret'.err = ErrNil
                 /\ sessions' = [sessions EXCEPT ![sid].Status = StatusUploading]
            ELSE /\ ret'.err = ErrNotPaused
                 /\ sessions' = sessions]_vars

\* a session with uploaded bytes was paused and has just been resumed
C13_Witness ==
    /\ ret.op = "ResumeUpload" /\ ret.err = ErrNil
    /\ ret.sid \in DOMAIN sessions
    /\ sessions[ret.sid].Status = StatusUploading
    /\ sessions[ret.sid].UploadedSize > 0

\* C14: PauseUpload on an existing session returns no error and sets the
\* status to Paused whatever the status was (Initialized, Uploading, Paused
\* or Completed); nothing else of the session, and no file, changes.
C14_PauseUnconditional ==
    [][ret'.op = "PauseUpload" /\ ret'.sid \in DOMAIN sessions =>
         /\ ret'.err = ErrNil
         /\ sessions' = [sessions EXCEPT ![ret'.sid].Status = StatusPaused]
         /\ files' = files]_vars

\* a session that CompleteUpload had completed is now Paused
C14_Witness ==
    /\ ret.op = "PauseUpload" /\ ret.err = ErrNil
    /\ ret.sid \in DOMAIN sessions
    /\ hist[ret.sid].done
    /\ sessions[ret.sid].Status = StatusPaused

\* C16: when CompleteUpload finds all bytes uploaded, it compares the temp
\* file's SHA-256 with the completion-time checksum if that is non-empty and
\* otherwise with the session's stored checksum; if they differ it fails
\* with the checksum-mismatch error and the session is unchanged; if they
\* agree, or neither checksum is present, the status becomes Completed.
C16_CompletionChecksumFirst ==
    [][/\ ret'.op = "CompleteUpload"
       /\ ret'.sid \in DOMAIN sessions
       /\ sessions[ret'.sid].UploadedSize = sessions[ret'.sid].FileSize
       /\ sessions[ret'.sid].TempPath \in DOMAIN files
       => LET session == sessions[ret'.sid]
              digest  == Sha256(files[session.TempPath])
              against == IF ret'.sum # "none" THEN ret'.sum
                         ELSE SumKind(session.Checksum, digest)
          IN  IF against = "wrong"
              THEN ret'.err = ErrFileSum /\ sessions' = sessions
              ELSE /\ ret'.err = ErrNil
                   /\ sessions' = [sessions EXCEPT ![ret'.sid].Status = StatusCompleted]]_vars

\* completed with the right completion-time checksum although the checksum
\* stored at creation is not the file's
C16_Witness ==
    /\ ret.op = "CompleteUpload" /\ ret.err = ErrNil /\ ret.sum = "right"
    /\ ret.sid \in DOMAIN sessions
    /\ sessions[ret.sid].Status = StatusCompleted
    /\ sessions[ret.sid].Checksum # NoChecksum
    /\ sessions[ret.sid].TempPath \in DOMAIN files
    /\ sessions[ret.sid].Checksum # Sha256(files[sessions[ret.sid].TempPath])

\* C17: the session a successful CreateSession returns (ChunkSize > 0) has
\* TotalChunks = ceil(FileSize / ChunkSize), UploadedSize = 0 and status
\* Initialized, and its temp file exists with exactly FileSize bytes.
C17_CreatedSession ==
    ret.op = "CreateSession" /\ ret.err = ErrNil =>
       /\ ret.sid \in DOMAIN sessions
       /\ LET session == sessions[ret.sid] IN
          /\ session.ChunkSize > 0 =>
                /\ session.TotalChunks * session.ChunkSize >= session.FileSize
                /\ (session.TotalChunks - 1) * session.ChunkSize < session.FileSize
          /\ session.UploadedSize = 0
          /\ session.Status = StatusInitialized
          /\ session.TempPath \in DOMAIN files
          /\ Len(files[session.TempPath]) = session.FileSize

\* a file whose size is not a multiple of the chunk size
C17_Witness ==
    /\ ret.op = "CreateSession" /\ ret.err = ErrNil
    /\ ret.sid \in DOMAIN sessions
    /\ sessions[ret.sid].FileSize = 3 /\ sessions[ret.sid].ChunkSize = 2
    /\ sessions[ret.sid].TotalChunks = 2
    /\ Len(files[sessions[ret.sid].TempPath]) = 3

\* the operations that look a session up by its ID
ByID ==
    {"GetSession", "GetProgress", "UploadChunk", "CompleteUpload",
     "PauseUpload", "ResumeUpload", "CancelUpload"}

\* C12: once CancelUpload has succeeded on a session, every later
\* GetSession, GetProgress, UploadChunk, CompleteUpload, PauseUpload,
\* ResumeUpload or CancelUpload with that ID fails with not-found.
C12_CancelledStaysUnknown ==
    [][\A sid \in cancelled :
          ret'.sid = sid /\ ret'.op \in ByID => ret'.err = ErrNotFound]_vars

\* C15: no successful CreateSession returns the ID of a session that is in
\* the map when it is called.
C15_FreshSessionID ==
    [][ret'.op = "CreateSession" /\ ret'.err = ErrNil =>
          ret'.sid \notin DOMAIN sessions]_vars

ValidationErrors == {ErrFilenameRequired, ErrFileSizeRequired}

InUploadChunk ==
    {t \in Threads : threads[t].pc \in {"Lookup", "Write", "Load", "Store", "Unlock"}}

\* C19: concurrent UploadChunk calls are serialized: at most one call is
\* between Lock and Unlock, so no call's seek and write is interleaved with
\* another call's bookkeeping, and no update is lost: a session's
\* UploadedSize is the sum of the data lengths of its successful uploads.
C19_UploadsSerialized ==
    /\ Cardinality(InUploadChunk) <= 1
    /\ InUploadChunk = mutex
    /\ \A sid \in DOMAIN sessions : sessions[sid].UploadedSize = hist[sid].bytes

\* a call has counted its bytes on top of an earlier call's while another
\* call for the same session waits for the lock
C19_Witness ==
    \E t1, t2 \in Threads :
       /\ t1 # t2
       /\ threads[t1].sid = threads[t2].sid
       /\ threads[t1].sid \in DOMAIN sessions
       /\ threads[t1].pc = "Unlock" /\ threads[t1].err = ErrNil
       /\ threads[t2].pc = "Lock"
       /\ threads[t1].local > 0
       /\ sessions[threads[t1].sid].UploadedSize
             = threads[t1].local + Len(threads[t1].data)

\* two UploadChunk calls for two different sessions are both inside their
\* file-write step
TwoWriting ==
    \E t1, t2 \in Threads :
       /\ threads[t1].sid # threads[t2].sid
       /\ threads[t1].pc = "Write" /\ threads[t2].pc = "Write"

\* C20 as stated: calls on different session IDs proceed fully in parallel,
\* there is a state in which two UploadChunk calls for two different
\* sessions are both inside their file-write step.
C20_ParallelWrites == <>TwoWriting

\* C20 as amended: the manager's one mutex is held for the whole of
\* UploadChunk, so at most one UploadChunk call is inside its file-write
\* step at a time, also when the calls are for different sessions.
C20_OneWriterAtATime ==
    \A t1, t2 \in Threads :
       threads[t1].pc = "Write" /\ threads[t2].pc = "Write" => t1 = t2

\* a call is in its file-write step while a call for another session waits
\* for the lock
C20_Witness ==
    \E t1, t2 \in Threads :
       /\ threads[t1].sid # threads[t2].sid
       /\ {threads[t1].sid, threads[t2].sid} \subseteq DOMAIN sessions
       /\ threads[t1].pc = "Write"
       /\ threads[t2].pc = "Lock"

\* ------------------------------------------------------------ C21 .. C30
\* the last call was an OrganizeFile that moved its file into the tree
Placed == ret.op = "OrganizeFile" /\ ret.err = ErrNil /\ ~ret.duplicate

\* a date that is there and lies between 1990-01-01 UTC and a year from now
InRange(d, now) ==
    /\ ~d.nil
    /\ d.at >= Date(MinYear, 1, 0, 0).at
    /\ d.at <= now.at + TicksPerYear

ReasonableYears ==
    {Decimal(year) : year \in MinYear..(YearOf(Now(clock, 0)) + 1)}

\* a date that is missing, or before 1990-01-01 or more than a year after
\* now by the calendar of its zone
Unreasonable(d, now) ==
    \/ d.nil
    \/ YearOf(d) < MinYear
    \/ d.at > now.at + TicksPerYear

\* C30: a capture date before 1990-01-01, or more than a year after the
\* current time, or missing, is replaced by the current time before the
\* directory is computed, and no file is ever in a year directory earlier
\* than 1990 or later than next year.
C30_DateClamp ==
    /\ \A path \in DOMAIN media : path[1] \in ReasonableYears
    /\ Placed =>
          LET d == IF Unreasonable(ret.info.DateTaken, ret.now)
                   THEN ret.now ELSE ret.info.DateTaken
          IN  /\ ret.final[1] = Decimal(YearOf(d))
              /\ ret.final[2] = MonthNames[MonthOf(d)]

\* C24: a sequential OrganizeFile leaves every file of the tree in place
\* with its content; when the sanitized name is taken in the target
\* directory, the file is stored under that name with (k) before the
\* extension, k >= 1 the smallest number whose name is free, and holds the
\* bytes of the temp file.
C24_NoOverwrite ==
    [][/\ \A path \in DOMAIN media :
             path \in DOMAIN media' /\ media'[path] = media[path]
       /\ ret'.op = "OrganizeFile" /\ ret'.err = ErrNil /\ ~ret'.duplicate =>
             LET name  == sanitizeFileName(ret'.name)
                 dir   == DirOf(ret'.final)
                 taken == {BaseOf(path) : path \in FilesIn(media, dir)}
             IN  /\ ret'.final \notin DOMAIN media
                 /\ media'[ret'.final] = files[ret'.temp]
                 /\ IF name \notin taken
                    THEN BaseOf(ret'.final) = name
                    ELSE \E k \in 1..(Cardinality(taken) + 1) :
                            /\ BaseOf(ret'.final) = Numbered(name, k)
                            /\ \A j \in 1..(k - 1) : Numbered(name, j) \in taken
      ]_vars

\* a third file named a.jpg went into a directory that held a.jpg and a(1).jpg
C24_Witness ==
    /\ Placed
    /\ sanitizeFileName(ret.name) = NameA
    /\ BaseOf(ret.final) = Numbered(NameA, 2)
    /\ \A name \in {NameA, Numbered(NameA, 1)} :
          /\ PathIn(DirOf(ret.final), name) \in DOMAIN media
          /\ media[PathIn(DirOf(ret.final), name)] # media[ret.final]

\* C23: a second file with the bytes of a file of its target month
\* directory is detected as a duplicate: its temp file is deleted, nothing
\* is moved, and the metadata is returned without an error; so after any
\* sequence of sequential OrganizeFile calls no month directory holds two
\* files with identical content.
C23_OneFilePerContent ==
    \A p, q \in DOMAIN media :
        DirOf(p) = DirOf(q) /\ media[p] = media[q] => p = q

C26_BoundedSearch ==
    Placed =>
        \A k \in (MaxAttempts + 1)..(Cardinality(DOMAIN media) + 1) :
            BaseOf(ret.final) # Numbered(sanitizeFileName(ret.name), k)

\* goroutine t has returned from an OrganizeFile that moved its file
Moved(t) == requests[t].pc = "done" /\ ~requests[t].duplicate

\* the contents of the files of the tree
Kept == {media[path] : path \in DOMAIN media}

\* two calls have moved files of different contents to the same path
SamePath(t, u) ==
    /\ t # u
    /\ Moved(t) /\ Moved(u)
    /\ requests[t].final = requests[u].final
    /\ requests[t].bytes # requests[u].bytes

\* C25: concurrent OrganizeFile calls for one month directory are not
\* serialized.  Two calls with the same sanitized name and different
\* contents can both find the path free and both move their file there: the
\* move of the second replaces the file of the first, which is then at no
\* path of the tree.
C25_RaceLosesContent ==
    [][\A t \in Threads :
          requests[t].pc = "moveFile" /\ requests'[t].pc = "done" =>
             /\ media'[requests[t].final] = requests[t].bytes
             /\ \A path \in DOMAIN media \ {requests[t].final} :
                   path \in DOMAIN media' /\ media'[path] = media[path]]_vars

C25_Witness ==
    \E t, u \in Threads :
       /\ SamePath(t, u)
       /\ media[requests[t].final] = requests[u].bytes
       /\ requests[t].bytes \notin Kept
       /\ sanitizeFileName(requests[t].name) = sanitizeFileName(requests[u].name)
       /\ files = <<>>

\* request h takes the step that leaves the given place of the handler
Leaves(h, pc) == requests[h].pc = pc /\ requests'[h].pc # pc

\* C27: the complete-upload request calls CompleteUpload, OrganizeFile and
\* CleanupSession in this order: OrganizeFile only after CompleteUpload has
\* succeeded and GetTempFilePath has returned the temp path of the session,
\* then Completed; CleanupSession only after OrganizeFile has returned
\* without error; and when the request is answered with success the session
\* is not in the map.
C27_CompleteThenOrganizeThenCleanup ==
    [][\A h \in Threads :
          /\ Leaves(h, "GetTempFilePath") /\ requests'[h].pc = "GetSession" =>
                /\ requests[h].completed
                /\ sessions[requests[h].sid].Status = StatusCompleted
                /\ requests'[h].tempPath = sessions[requests[h].sid].TempPath
          /\ Leaves(h, "OrganizeFile") =>
                /\ requests[h].completed
                /\ requests[h].tempPath = TempPathOf(requests[h].sid)
                /\ ret'.op = "OrganizeFile" /\ ret'.temp = requests[h].tempPath
          /\ Leaves(h, "CleanupSession") =>
                /\ requests[h].completed /\ requests[h].organized
                /\ ret'.op = "CleanupSession"
          /\ requests[h].pc # "done" /\ requests'[h].pc = "done"
             /\ requests'[h].status = "Success" =>
                /\ Leaves(h, "CleanupSession")
                /\ requests[h].sid \notin DOMAIN sessions'
      ]_vars

\* a request was answered with success, its file is in the tree and its
\* temp file is gone
C27_Witness ==
    \E h \in Threads :
       /\ requests[h].pc = "done" /\ requests[h].status = "Success"
       /\ ret.op = "CleanupSession" /\ ret.err = ErrNil
       /\ TempPathOf(ret.sid) \notin DOMAIN files
       /\ media # <<>>
       /\ sessions = <<>>

\* request h holds the pointer that GetSession returned, and has yet to read
\* session.FileName through it
HoldsReference(h) == requests[h].pc = "OrganizeFile"

\* C21: a caller refers to a session by its ID only and holds no reference
\* to it from one call to the next, so that no operation of the manager
\* writes a session between the moment a caller was given it and the
\* caller's read of its fields.
C21_NoReferenceAcrossCalls ==
    [][\A h \in Threads :
          HoldsReference(h) /\ requests[h].sid \in DOMAIN sessions =>
             /\ requests[h].sid \in DOMAIN sessions'
             /\ sessions'[requests[h].sid] = sessions[requests[h].sid]
      ]_vars

\* goroutine t is inside an operation of the manager
InOperation(t) == threads[t].pc # "idle" \/ requests[t].pc = "Lock"

\* C22: under fair scheduling every operation of the manager that was
\* invoked returns, on its success path and on each of its error paths, and
\* the lock is free again and again: no goroutine waits for it forever.
C22_EveryOperationReturns ==
    /\ \A t \in Threads : InOperation(t) ~> ~InOperation(t)
    /\ []<>(mutex = {})

\* an UploadChunk is about to return an error with the lock held, while
\* another goroutine waits for the lock
C22_Witness ==
    \E t, u \in Threads :
       /\ t # u
       /\ threads[t].pc = "Unlock" /\ threads[t].err # ErrNil /\ t \in mutex
       /\ threads[u].pc = "Lock" \/ requests[u].pc = "Lock"

\* ------------------------------------------------------------ C31 .. C40
\* the capture date of a scanned file when it is known, else its
\* modification time
DateOf(file) == IF file.DateTaken = NoDate THEN file.ModTime.at ELSE file.DateTaken.at

\* the scanned files in some order that is non-increasing in the effective
\* date, cut to the page
PageOf(sorted, limit, offset) ==
    /\ Len(sorted) = Len(ret.files)
    /\ \A k \in 1..Len(ret.files) : \E i \in 1..Len(sorted) : sorted[i] = ret.files[k]
    /\ \A i \in 1..(Len(sorted) - 1) :
          DateOf(sorted[i]) >= DateOf(sorted[i + 1])
    /\ Len(ret.out) = IF offset >= Len(sorted) THEN 0
                      ELSE IF offset + limit > Len(sorted) THEN Len(sorted) - offset
                      ELSE limit
    /\ \A k \in 1..Len(ret.out) : ret.out[k] = sorted[offset + k]

\* C31: ScanFiles returns, without error, the page results[offset :
\* min(offset+limit, len)] of some permutation of the scanned files that is
\* in non-increasing order of effective date (capture date, else
\* modification time); the page is empty when offset >= len.
C31_SortedThenPaged ==
    ret.op = "ScanFiles" =>
       /\ ret.err = ErrNil
       /\ \E order \in [1..Len(ret.files) -> 1..Len(ret.files)] :
             PageOf([i \in 1..Len(ret.files) |-> ret.files[order[i]]],
                    ret.limit, ret.offset)
       /\ ret.offset >= Len(ret.files) => ret.out = <<>>

\* a page cut from the middle of files that the walk found in another
\* order than that of their dates, one of them dated by its capture date
C31_Witness ==
    /\ ret.op = "ScanFiles"
    /\ Len(ret.files) = 3 /\ ret.offset = 1 /\ ret.limit = 1
    /\ ret.files[1].DateTaken = NoDate /\ ret.files[2].DateTaken # NoDate
    /\ DateOf(ret.files[3]) < DateOf(ret.files[1])
    /\ DateOf(ret.files[1]) < DateOf(ret.files[2])
    /\ ret.files[2].ModTime.at < ret.files[1].ModTime.at
    /\ ret.out = <<ret.files[1]>>

\* C32: every UploadChunk that returns without error leaves the session
\* with status Uploading, whatever its status was (Paused included); a
\* chunk of no bytes does so too, and leaves UploadedSize and the temp
\* files as they were.
C32_ChunkSetsUploading ==
    [][ret'.op = "UploadChunk" /\ ret'.err = ErrNil =>
          /\ ret'.sid \in DOMAIN sessions /\ ret'.sid \in DOMAIN sessions'
          /\ sessions'[ret'.sid].Status = StatusUploading
          /\ ret'.wrote = <<>> =>
                /\ sessions'[ret'.sid].UploadedSize = sessions[ret'.sid].UploadedSize
                /\ files' = files
      ]_vars

\* a chunk of no bytes was accepted by a session that has no byte yet, and
\* the session is Uploading
C32_Witness ==
    /\ ret.op = "UploadChunk" /\ ret.err = ErrNil /\ ret.wrote = <<>>
    /\ ret.sid \in DOMAIN sessions
    /\ sessions[ret.sid].UploadedSize = 0
    /\ sessions[ret.sid].Status = StatusUploading

\* C33: a CreateSession that fails adds no session to the map, and when it
\* fails after it has created the temp file (the allocation fails) no file
\* is left at the temp path; a CreateSession that succeeds adds the session
\* with its temp file there, of the declared length.
C33_CreateAllOrNothing ==
    [][ret'.op = "CreateSession" =>
          IF ret'.err = ErrNil
          THEN /\ ret'.sid \in DOMAIN sessions'
               /\ sessions'[ret'.sid].TempPath \in DOMAIN files'
               /\ Len(files'[sessions'[ret'.sid].TempPath]) = sessions'[ret'.sid].FileSize
          ELSE /\ sessions' = sessions
               /\ ret'.err = ErrAllocate =>
                     TempPathOf(generateSessionID(clock')) \notin DOMAIN files'
      ]_vars

\* the allocation has failed while another upload is in the map: no file
\* is at the temp path of the refused upload
C33_Witness ==
    /\ ret.op = "CreateSession" /\ ret.err = ErrAllocate
    /\ sessions # <<>>
    /\ TempPathOf(generateSessionID(clock)) \notin DOMAIN files

\* C34: the hash of the incoming file is compared with the files of its
\* target month directory only: a call reports a duplicate only when that
\* directory holds a file with the same hash, and every other file, those
\* whose bytes are stored under other month directories included, is
\* moved into its own directory.
C34_DuplicatesWithinTheMonth ==
    [][ret'.op = "OrganizeFile" /\ ret'.err = ErrNil =>
          LET bytes == files[ret'.temp]
              dir   == getTargetDirectory(ret'.info.DateTaken, ret'.now)
              same  == {path \in DOMAIN media : Sha256(media[path]) = Sha256(bytes)}
          IN  IF ret'.duplicate
              THEN /\ \E path \in same : DirOf(path) = dir
                   /\ media' = media
              ELSE /\ DirOf(ret'.final) = dir
                   /\ ret'.final \notin DOMAIN media
                   /\ media' = [path \in DOMAIN media \cup {ret'.final} |->
                                   IF path = ret'.final THEN bytes ELSE media[path]]
                   /\ ret'.temp \notin DOMAIN files'
      ]_vars

\* a file has been moved into its month directory while another month
\* directory holds a file with the same bytes
C34_Witness ==
    /\ ret.op = "OrganizeFile" /\ ret.err = ErrNil /\ ~ret.duplicate
    /\ \E path \in DOMAIN media :
          /\ DirOf(path) # DirOf(ret.final)
          /\ media[path] = media[ret.final]

\* C35: an OrganizeFile that succeeds without finding a duplicate has moved
\* the file: the temp file is gone and the destination holds the bytes it
\* had; when the rename has failed and the copy fails partway, the call
\* returns an error, the temp file is kept and the partial destination is
\* not in the tree.
C35_MoveOrNothing ==
    [][ret'.op = "OrganizeFile" =>
          /\ ret'.err = ErrNil /\ ~ret'.duplicate =>
                /\ ret'.temp \notin DOMAIN files'
                /\ ret'.final \in DOMAIN media'
                /\ media'[ret'.final] = files[ret'.temp]
          /\ ret'.err = "failed to move file: copy failed" =>
                /\ ret'.temp \in DOMAIN files'
                /\ files' = files
                /\ media' = media
      ]_vars

\* a copy has failed partway with files in the tree: the temp file is
\* still there
C35_Witness ==
    /\ ret.op = "OrganizeFile"
    /\ ret.err = "failed to move file: copy failed"
    /\ ret.temp \in DOMAIN files
    /\ media # <<>>

\* C36: a session whose status is Completed has UploadedSize = FileSize,
\* whatever was called on it before; so a GetTempFilePath that returns a
\* path returns it for a session whose byte count is its declared size.
C36_CompletedIsFull ==
    /\ \A sid \in DOMAIN sessions :
          sessions[sid].Status = StatusCompleted =>
             sessions[sid].UploadedSize = sessions[sid].FileSize
    /\ ret.op = "GetTempFilePath" /\ ret.err = ErrNil =>
          /\ ret.sid \in DOMAIN sessions
          /\ sessions[ret.sid].UploadedSize = sessions[ret.sid].FileSize

\* a chunk has been accepted by a session that had been completed: the
\* byte count is above the declared size and the session is Uploading
C36_Witness ==
    /\ ret.op = "UploadChunk" /\ ret.err = ErrNil
    /\ ret.sid \in DOMAIN sessions
    /\ hist[ret.sid].done
    /\ sessions[ret.sid].UploadedSize > sessions[ret.sid].FileSize
    /\ sessions[ret.sid].Status = StatusUploading

\* C37: UploadChunk, CompleteUpload, PauseUpload, ResumeUpload, CancelUpload
\* and CleanupSession on one session, and the CreateSession of a new
\* session, leave every other session of the map and its temp file as
\* they were.
C37_SessionIsolation ==
    [][ret'.op \in {"CreateSession", "UploadChunk", "CompleteUpload", "PauseUpload",
                    "ResumeUpload", "CancelUpload", "CleanupSession"} =>
          \A other \in DOMAIN sessions :
             ret'.op = "CreateSession" \/ other # ret'.sid =>
                /\ other \in DOMAIN sessions'
                /\ sessions'[other] = sessions[other]
                /\ sessions[other].TempPath \in DOMAIN files =>
                      /\ sessions[other].TempPath \in DOMAIN files'
                      /\ files'[sessions[other].TempPath] = files[sessions[other].TempPath]
      ]_vars

\* C38: every file of the temp directory is the temp file of a session
\* that is in the map: CancelUpload, CleanupSession and a failed
\* CreateSession leave no temp file behind, and no later call makes the
\* temp file of a removed session again.
C38_NoOrphanTempFiles ==
    \A path \in DOMAIN files :
        \E sid \in DOMAIN sessions : sessions[sid].TempPath = path

\* a chunk has arrived for a cancelled upload: it is refused and the temp
\* directory is empty
C38_Witness ==
    /\ ret.op = "UploadChunk" /\ ret.err = ErrNotFound
    /\ ret.sid \in cancelled
    /\ sessions = <<>>
    /\ files = <<>>

\* C39: of two concurrent complete-upload requests for the same uploaded
\* session, at most one gets the file organized without an error and
\* reports success.
C39_OneRequestSucceeds ==
    \A g, h \in Threads :
        /\ requests[g].pc = "CleanupSession"
        /\ requests[h].pc = "CleanupSession"
        /\ requests[g].sid = requests[h].sid
        => g = h

\* C40: when OrganizeFile fails in a complete-upload request,
\* CleanupSession is not called, and the session stays in the map until a
\* later CancelUpload removes it.
C40_HeldUntilCancel ==
    [][\A h \in Threads :
          /\ requests[h].pc = "done"
          /\ "failed" \in DOMAIN requests[h]
          /\ requests[h].failed \in DOMAIN sessions \ cancelled
          => \/ requests[h].failed \in DOMAIN sessions'
             \/ ret'.op = "CancelUpload"
      ]_vars

\* C40, amended: when OrganizeFile fails in a complete-upload request, the
\* request is answered without a call of CleanupSession and the sessions
\* are as they were; the session stays in the map, holding its slot, until
\* a CancelUpload or the CleanupSession of a complete-upload request that
\* succeeded removes it, and nothing else removes it.
C40_HeldUntilCancelOrCleanup ==
    [][/\ \A h \in Threads :
             /\ requests[h].pc = "OrganizeFile"
             /\ requests'[h] # requests[h]
             /\ ret'.op = "OrganizeFile" /\ ret'.err # ErrNil
             => /\ requests'[h].pc = "done"
                /\ requests'[h].status = "InternalError"
                /\ sessions' = sessions
       /\ \A sid \in DOMAIN sessions :
             sid \notin DOMAIN sessions' =>
                /\ ret'.sid = sid
                /\ \/ ret'.op = "CancelUpload"
                   \/ /\ ret'.op = "CleanupSession"
                      /\ \E h \in Threads :
                            /\ requests[h].pc = "CleanupSession"
                            /\ requests'[h] = Responded("Success")
      ]_vars

\* OrganizeFile has failed in a request and its session is in the map,
\* Completed, with no room for another upload
C40_Witness ==
    \E h \in Threads :
       /\ requests[h].pc = "done"
       /\ "failed" \in DOMAIN requests[h]
       /\ requests[h].failed \in DOMAIN sessions
       /\ sessions[requests[h].failed].Status = StatusCompleted
       /\ ret.op = "CreateSession" /\ ret.err = ErrCapacity

====
